---- MODULE Spec2Model ----
(***************************************************************************)
(* A model of gin-trading-bot: the indicator engine, the signal evaluator, *)
(* the position store, the live trading loop and the backtest replay.      *)
(*                                                                         *)
(* Numbers.  Prices, percentages, leverage and trade volume are integers.  *)
(* Every quotient the code forms is kept as an exact fraction [n, d] and   *)
(* every comparison the code makes is made exactly (cross-multiplied), so  *)
(* the model is the code over exact arithmetic: IEEE rounding is left out. *)
(***************************************************************************)
EXTENDS Integers, Sequences, FiniteSets, TLC

VARIABLES
    config,            \* TradingBot.config['pairs'] / Backtester.config['pairs']
    positions,         \* PositionManager.positions: id -> position record
    positions_file,    \* logs/positions.json as the last save_positions left it
    clock,             \* datetime.now() at one-second resolution
    pm_result,         \* outcome of the last PositionManager call
    pc,                \* where run_trading_loop stands
    running,           \* TradingBot.running
    analysis_results,  \* analyze_market()'s list, consumed by the for loop
    open_positions,    \* monitor_positions' snapshot still to be looked at
    hist,              \* the candle closes the market has produced, per symbol
    live_events,       \* open/close events of the live driver, in order
    calls,             \* exchange and notifier calls of the last handler run
    bt_out,            \* what run_backtest returned
    exit_in,           \* inputs of one exit check
    exit_out           \* its results

vars == <<config, positions, positions_file, clock, pm_result, pc, running, analysis_results,
          open_positions, hist, live_events, calls, bt_out, exit_in, exit_out>>

-----------------------------------------------------------------------------
(* Bounds of the model *)

MaxClock == 2          \* seconds the clock may reach
MaxCalls == 3          \* calls made on the store in the store-level runs
MaxTail == 3           \* candles that follow the warm-up candles
MaxTrades == 3         \* trades in a list handed to the metrics

Symbols == {"BTCUSDT", "ETHUSDT"}
Sides == {"LONG", "SHORT"}
Closes == {3, 4, 5}    \* candle closes and ticker prices
WarmClose == CHOOSE p \in Closes : \A q \in Closes : q <= p

(* Python's None and a present value: every optional field is <<>> or <<v>> *)
None == <<>>
Some(v) == <<v>>
Val(o) == o[1]

-----------------------------------------------------------------------------
(* Fractions *)

Rat(n, d) == [n |-> n, d |-> d]
RatEq(a, b) == a.n * b.d = b.n * a.d
RatSign(a) == IF a.n = 0 THEN 0 ELSE IF (a.n > 0) = (a.d > 0) THEN 1 ELSE 0 - 1

RECURSIVE SumTo(_, _, _)
SumTo(f, lo, hi) == IF lo > hi THEN 0 ELSE f[hi] + SumTo(f, lo, hi - 1)

Max(a, b) == IF a >= b THEN a ELSE b
Min(a, b) == IF a <= b THEN a ELSE b

-----------------------------------------------------------------------------
(* Indicator engine: src/src/indicators/technical_indicators.py *)

rsi_period == 6
bb_period == 20
bb_std_dev == 2

(* delta = prices.diff(); gains = delta.where(delta > 0, 0);               *)
(* losses = -delta.where(delta < 0, 0).  The first delta is NaN, both      *)
(* comparisons with NaN are false, so the first gain and loss are 0.       *)
Gain(prices, i) == IF i = 1 THEN 0 ELSE Max(prices[i] - prices[i - 1], 0)
(* the losses left with the sign of the fall *)
Loss_signed(prices, i) == IF i = 1 THEN 0 ELSE Min(prices[i] - prices[i - 1], 0)
Loss(prices, i) == IF i = 1 THEN 0 ELSE Max(prices[i - 1] - prices[i], 0)

(* the averages taken over all gains and losses up to i *)
RsiAt_expanding(prices, period, i) ==
    [g |-> SumTo([k \in 1..Len(prices) |-> Gain(prices, k)], 1, i),
     l |-> SumTo([k \in 1..Len(prices) |-> Loss(prices, k)], 1, i),
     n |-> i]

(* One value of calculate_rsi.  rolling(window=period, min_periods=1).mean() *)
(* over the n = min(i, period) last gains g and losses l gives               *)
(*   rs = (g/n) / (l/n + 1e-10),  rsi = 100 - 100/(1 + rs)                   *)
(*      = 100*g / (g + l + n*1e-10),                                         *)
(* which is never NaN, so fillna(50) replaces nothing.  The value is kept    *)
(* as the sums it is made of.                                                *)
RsiAt(prices, period, i) ==
    LET lo == Max(1, i - period + 1)
        g == SumTo([k \in 1..Len(prices) |-> Gain(prices, k)], lo, i)
        l == SumTo([k \in 1..Len(prices) |-> Loss(prices, k)], lo, i)
    IN  [g |-> g, l |-> l, n |-> i - lo + 1]

calculate_rsi(prices, period) ==
    [i \in 1..Len(prices) |-> RsiAt(prices, period, i)]

(* rsi < t, for an integer t: 100 g < t (g + l + n*1e-10), where            *)
(* 0 <= t*n*1e-10 < 1 for 0 <= t and the other terms are integers.          *)
RsiLess(rsi, t) ==
    IF t > 0 THEN (100 - t) * rsi.g <= t * rsi.l
             ELSE (100 - t) * rsi.g < t * rsi.l

(* One value of calculate_bollinger_bands: rolling(window=period) needs     *)
(* period samples, else NaN.  With s the sum and q the sum of squares of    *)
(* the period last prices, v = period*q - s*s:                              *)
(*   middle = s/period, std = sqrt(v / (period*(period-1))) (sample std),   *)
(*   upper/lower = middle +/- std_dev*std.                                  *)
BandsAt(prices, period, std_dev, i) ==
    IF i < period THEN [nan |-> TRUE, s |-> 0, v |-> 0, p |-> period, k |-> std_dev]
    ELSE LET s == SumTo([j \in 1..Len(prices) |-> prices[j]], i - period + 1, i)
             q == SumTo([j \in 1..Len(prices) |-> prices[j] * prices[j]], i - period + 1, i)
         IN  [nan |-> FALSE, s |-> s, v |-> period * q - s * s, p |-> period, k |-> std_dev]

calculate_bollinger_bands(prices, period, std_dev) ==
    [i \in 1..Len(prices) |-> BandsAt(prices, period, std_dev, i)]

(* a >= b*p*std and a <= b*p*std for the bands' std, squared out *)
GeStd(a, b, bb) ==
    IF b >= 0 THEN a >= 0 /\ a * a * (bb.p - 1) >= b * b * bb.p * bb.v
              ELSE a >= 0 \/ a * a * (bb.p - 1) <= b * b * bb.p * bb.v
LeStd(a, b, bb) ==
    IF b >= 0 THEN a <= 0 \/ a * a * (bb.p - 1) <= b * b * bb.p * bb.v
              ELSE a <= 0 /\ a * a * (bb.p - 1) >= b * b * bb.p * bb.v

(* sign of lower_band = s/p - k*std *)
LowerSign(bb) ==
    IF GeStd(bb.s, bb.k, bb) /\ LeStd(bb.s, bb.k, bb) THEN 0
    ELSE IF GeStd(bb.s, bb.k, bb) THEN 1 ELSE 0 - 1

(* calculate_price_distance_from_bb_lower(price, lower_band) >= threshold:  *)
(* the distance is 0 when lower_band = 0, else (lower - price)/lower*100.   *)
(* For lower > 0 this is (100 - threshold)*lower >= 100*price, for          *)
(* lower < 0 the inequality turns round.                                    *)
(* A NaN lower band gives a NaN distance, and every comparison with NaN is  *)
(* false.                                                                    *)
(* the distance condition met by any price at or below the lower band *)
DistanceAtLeast_touching(price, bb, threshold) ==
    ~bb.nan /\ GeStd(bb.s - price * bb.p, bb.k, bb)

DistanceAtLeast(price, bb, threshold) ==
    LET c == 100 - threshold
        a == c * bb.s - 100 * price * bb.p
    IN  CASE bb.nan -> FALSE
          [] LowerSign(bb) = 0 -> 0 >= threshold
          [] LowerSign(bb) = 1 -> GeStd(a, c * bb.k, bb)
          [] OTHER -> LeStd(a, c * bb.k, bb)

(* the reason's distance clause left out *)
DistanceBelow_never(price, bb, threshold) == FALSE

(* distance_from_bb < distance_threshold *)
DistanceBelow(price, bb, threshold) ==
    ~bb.nan /\ ~DistanceAtLeast(price, bb, threshold)

(* the signal with either condition being enough *)
is_long_signal_either(rsi, price, lower_band, rsi_threshold, distance_threshold) ==
    LET rsi_condition == RsiLess(rsi, rsi_threshold)
        distance_condition == DistanceAtLeast(price, lower_band, distance_threshold)
    IN  rsi_condition \/ distance_condition

is_long_signal(rsi, price, lower_band, rsi_threshold, distance_threshold) ==
    LET rsi_condition == RsiLess(rsi, rsi_threshold)
        distance_condition == DistanceAtLeast(price, lower_band, distance_threshold)
    IN  rsi_condition /\ distance_condition

-----------------------------------------------------------------------------
(* Strategy: src/src/strategy/trading_strategy.py.  The first parameter cfg *)
(* is self.config['pairs']: a function from the configured symbols to their *)
(* settings.  Percentages are whole percents.                               *)

default_trade_volume == 20
default_take_profit_percent == 2
default_stop_loss_percent == 1
default_leverage == 10

(* self.config.get('pairs', {}).get(symbol, {}) is empty for a missing symbol *)
Configured(cfg, symbol) == symbol \in DOMAIN cfg
(* a configured symbol counted as enabled whatever its flag *)
Enabled_whatever_flag(cfg, symbol) == symbol \in DOMAIN cfg
Enabled(cfg, symbol) == Configured(cfg, symbol) /\ cfg[symbol].enabled

GeRat(x, r) == x * r.d >= r.n
LeRat(x, r) == x * r.d <= r.n

InsufficientData(symbol) ==
    [symbol |-> symbol, signal |-> "NONE", reason |-> <<"Insufficient data">>,
     rsi |-> None, bb |-> None, current_price |-> None, config |-> None]


(* analyze_symbol past its length check *)
AnalysisOf(cfg, symbol, df) ==
    LET rsi == calculate_rsi(df, rsi_period)
        bands == calculate_bollinger_bands(df, bb_period, bb_std_dev)
        current_price == df[Len(df)]
        current_rsi == rsi[Len(df)]
        current_bb == bands[Len(df)]
    IN  IF ~Enabled(cfg, symbol)
        THEN [symbol |-> symbol, signal |-> "NONE",
              reason |-> <<"Symbol not configured or disabled">>,
              rsi |-> Some(current_rsi), bb |-> Some(current_bb),
              current_price |-> Some(current_price), config |-> None]
        ELSE
        LET symbol_config == cfg[symbol]
            rsi_threshold == symbol_config.rsi_long_threshold
            distance_threshold == symbol_config.shadow_distance_threshold
            long == is_long_signal(current_rsi, current_price, current_bb,
                                   rsi_threshold, distance_threshold)
            r1 == IF ~RsiLess(current_rsi, rsi_threshold)
                  THEN <<"RSI >= threshold">> ELSE <<>>
            r2 == IF DistanceBelow(current_price, current_bb, distance_threshold)
                  THEN <<"Price only below BB">> ELSE <<>>
            reasons == r1 \o r2
        IN  [symbol |-> symbol,
             signal |-> IF long THEN "LONG" ELSE "NONE",
             reason |-> IF long THEN <<"RSI < threshold", "price below BB lower">>
                        ELSE IF reasons # <<>> THEN reasons
                        ELSE <<"No signal conditions met">>,
             rsi |-> Some(current_rsi), bb |-> Some(current_bb),
             current_price |-> Some(current_price), config |-> Some(symbol_config)]

(* analyze_symbol asking for the shorter of the two periods only *)
analyze_symbol_short_window(cfg, symbol, df) ==
    IF Len(df) < Min(rsi_period, bb_period) THEN InsufficientData(symbol)
    ELSE AnalysisOf(cfg, symbol, df)

analyze_symbol(cfg, symbol, df) ==
    IF Len(df) < Max(rsi_period, bb_period) THEN InsufficientData(symbol)
    ELSE AnalysisOf(cfg, symbol, df)

(* sizing by the leveraged notional instead of the margin *)
calculate_position_size_leveraged(cfg, symbol, current_price) ==
    LET trade_volume_usdt == IF Configured(cfg, symbol) THEN cfg[symbol].trade_volume
                             ELSE default_trade_volume
        leverage == IF Configured(cfg, symbol) THEN cfg[symbol].leverage
                    ELSE default_leverage
    IN  Rat(trade_volume_usdt * leverage, current_price)

(* quantity = trade_volume_usdt / current_price, kept as the fraction *)
calculate_position_size(cfg, symbol, current_price) ==
    LET trade_volume_usdt == IF Configured(cfg, symbol) THEN cfg[symbol].trade_volume
                             ELSE default_trade_volume
    IN  Rat(trade_volume_usdt, current_price)

(* the levels with the two sides exchanged *)
calculate_take_profit_stop_loss_swapped(cfg, symbol, entry_price, side) ==
    LET tp == IF Configured(cfg, symbol) THEN cfg[symbol].take_profit_percent
              ELSE default_take_profit_percent
        sl == IF Configured(cfg, symbol) THEN cfg[symbol].stop_loss_percent
              ELSE default_stop_loss_percent
    IN  IF side # "LONG"
        THEN [take_profit |-> Rat(entry_price * (100 + tp), 100),
              stop_loss |-> Rat(entry_price * (100 - sl), 100)]
        ELSE [take_profit |-> Rat(entry_price * (100 - tp), 100),
              stop_loss |-> Rat(entry_price * (100 + sl), 100)]

(* entry_price * (1 +/- percent/100), as fractions over 100 *)
calculate_take_profit_stop_loss(cfg, symbol, entry_price, side) ==
    LET tp == IF Configured(cfg, symbol) THEN cfg[symbol].take_profit_percent
              ELSE default_take_profit_percent
        sl == IF Configured(cfg, symbol) THEN cfg[symbol].stop_loss_percent
              ELSE default_stop_loss_percent
    IN  IF side = "LONG"
        THEN [take_profit |-> Rat(entry_price * (100 + tp), 100),
              stop_loss |-> Rat(entry_price * (100 - sl), 100)]
        ELSE [take_profit |-> Rat(entry_price * (100 - tp), 100),
              stop_loss |-> Rat(entry_price * (100 + sl), 100)]

(* should_close_position with exclusive bounds *)
should_close_position_exclusive(cfg, symbol, position_data, current_price) ==
    LET entry_price == position_data.entry_price
        side == position_data.side
        lv == calculate_take_profit_stop_loss(cfg, symbol, entry_price, side)
    IN  IF entry_price = 0
        THEN [close |-> FALSE, reason |-> "No entry price available"]
        ELSE IF side = "LONG"
        THEN IF ~LeRat(current_price, lv.take_profit)
             THEN [close |-> TRUE, reason |-> "Take Profit"]
             ELSE IF ~GeRat(current_price, lv.stop_loss)
             THEN [close |-> TRUE, reason |-> "Stop Loss"]
             ELSE [close |-> FALSE, reason |-> "No exit signal"]
        ELSE IF ~GeRat(current_price, lv.take_profit)
             THEN [close |-> TRUE, reason |-> "Take Profit"]
             ELSE IF ~LeRat(current_price, lv.stop_loss)
             THEN [close |-> TRUE, reason |-> "Stop Loss"]
             ELSE [close |-> FALSE, reason |-> "No exit signal"]

(* should_close_position testing the stop-loss before the take-profit *)
should_close_position_stop_first(cfg, symbol, position_data, current_price) ==
    LET entry_price == position_data.entry_price
        side == position_data.side
        lv == calculate_take_profit_stop_loss(cfg, symbol, entry_price, side)
    IN  IF entry_price = 0
        THEN [close |-> FALSE, reason |-> "No entry price available"]
        ELSE IF side = "LONG"
        THEN IF LeRat(current_price, lv.stop_loss)
             THEN [close |-> TRUE, reason |-> "Stop Loss"]
             ELSE IF GeRat(current_price, lv.take_profit)
             THEN [close |-> TRUE, reason |-> "Take Profit"]
             ELSE [close |-> FALSE, reason |-> "No exit signal"]
        ELSE IF GeRat(current_price, lv.stop_loss)
             THEN [close |-> TRUE, reason |-> "Stop Loss"]
             ELSE IF LeRat(current_price, lv.take_profit)
             THEN [close |-> TRUE, reason |-> "Take Profit"]
             ELSE [close |-> FALSE, reason |-> "No exit signal"]

(* should_close_position reading the levels stored in the position *)
should_close_position_stored(cfg, symbol, position_data, current_price) ==
    LET entry_price == position_data.entry_price
        side == position_data.side
    IN  IF entry_price = 0
        THEN [close |-> FALSE, reason |-> "No entry price available"]
        ELSE IF side = "LONG"
        THEN IF GeRat(current_price, position_data.take_profit)
             THEN [close |-> TRUE, reason |-> "Take Profit"]
             ELSE IF LeRat(current_price, position_data.stop_loss)
             THEN [close |-> TRUE, reason |-> "Stop Loss"]
             ELSE [close |-> FALSE, reason |-> "No exit signal"]
        ELSE IF LeRat(current_price, position_data.take_profit)
             THEN [close |-> TRUE, reason |-> "Take Profit"]
             ELSE IF GeRat(current_price, position_data.stop_loss)
             THEN [close |-> TRUE, reason |-> "Stop Loss"]
             ELSE [close |-> FALSE, reason |-> "No exit signal"]

should_close_position(cfg, symbol, position_data, current_price) ==
    LET entry_price == position_data.entry_price
        side == position_data.side
        lv == calculate_take_profit_stop_loss(cfg, symbol, entry_price, side)
    IN  IF entry_price = 0
        THEN [close |-> FALSE, reason |-> "No entry price available"]
        ELSE IF side = "LONG"
        THEN IF GeRat(current_price, lv.take_profit)
             THEN [close |-> TRUE, reason |-> "Take Profit"]
             ELSE IF LeRat(current_price, lv.stop_loss)
             THEN [close |-> TRUE, reason |-> "Stop Loss"]
             ELSE [close |-> FALSE, reason |-> "No exit signal"]
        ELSE IF LeRat(current_price, lv.take_profit)
             THEN [close |-> TRUE, reason |-> "Take Profit"]
             ELSE IF GeRat(current_price, lv.stop_loss)
             THEN [close |-> TRUE, reason |-> "Stop Loss"]
             ELSE [close |-> FALSE, reason |-> "No exit signal"]

get_enabled_symbols(cfg) == {s \in DOMAIN cfg : cfg[s].enabled}

required_fields ==
    <<"leverage", "shadow_distance_threshold", "trade_volume",
      "rsi_long_threshold", "take_profit_percent", "stop_loss_percent">>

(* field in symbol_config, isinstance(value, (int, float)) and value > 0.   *)
(* A pair's settings are a record of numbers; the fields whose JSON value   *)
(* is not a number (a string, null, a list) are named in its non_numeric.   *)
FieldValid(symbol_config, field) ==
    /\ field \in DOMAIN symbol_config
    /\ field \notin symbol_config.non_numeric
    /\ symbol_config[field] > 0

(* the validation without its two ceilings *)
validate_symbol_config_no_ceiling(cfg, symbol) ==
    /\ Configured(cfg, symbol)
    /\ \A k \in 1..Len(required_fields) : FieldValid(cfg[symbol], required_fields[k])

validate_symbol_config(cfg, symbol) ==
    /\ Configured(cfg, symbol)
    /\ \A k \in 1..Len(required_fields) : FieldValid(cfg[symbol], required_fields[k])
    /\ cfg[symbol].leverage <= 125
    /\ cfg[symbol].rsi_long_threshold < 100

-----------------------------------------------------------------------------
(* Position store: src/src/position_manager.py.  The store is the dict     *)
(* self.positions; now is datetime.now() in whole seconds.                  *)

(* f"{symbol}_{datetime.now().strftime('%Y%m%d_%H%M%S')}": the symbol and  *)
(* the second of the call, and nothing else                                 *)
position_id(symbol, now) == <<symbol, now>>

position_data(symbol, now, side, quantity, entry_price, leverage, take_profit, stop_loss, rsi_at_entry) ==
    [id |-> position_id(symbol, now), symbol |-> symbol, side |-> side,
     quantity |-> quantity, entry_price |-> entry_price, leverage |-> leverage,
     take_profit |-> take_profit, stop_loss |-> stop_loss,
     rsi_at_entry |-> rsi_at_entry, entry_time |-> now, status |-> "OPEN",
     exit_price |-> None, exit_time |-> None, pnl |-> Rat(0, 1),
     pnl_percent |-> Rat(0, 1), exit_reason |-> None]

(* self.positions[position_id] = position_data *)
add_position(store, now, symbol, side, quantity, entry_price, leverage, take_profit, stop_loss, rsi_at_entry) ==
    LET data == position_data(symbol, now, side, quantity, entry_price, leverage,
                              take_profit, stop_loss, rsi_at_entry)
    IN  [i \in DOMAIN store \cup {data.id} |->
            IF i = data.id THEN data ELSE store[i]]

(* the closing with pnl on the base quantity alone, not quantity * entry_price *)
ClosedPosition_quantity_base(position, now, exit_price, reason) ==
    LET entry_price == position.entry_price
        quantity == position.quantity
        leverage == position.leverage
        price_change == IF position.side = "LONG" THEN exit_price - entry_price
                        ELSE entry_price - exit_price
    IN  [position EXCEPT
            !.exit_price = Some(exit_price),
            !.exit_time = Some(now),
            !.status = "CLOSED",
            !.pnl = Rat(price_change * quantity.n * leverage, entry_price * quantity.d),
            !.pnl_percent = Rat(price_change * 100 * leverage, entry_price),
            !.exit_reason = Some(reason)]

(* the closing with the price change of a SHORT *)
ClosedPosition_short_side(position, now, exit_price, reason) ==
    LET entry_price == position.entry_price
        quantity == position.quantity
        leverage == position.leverage
        price_change == entry_price - exit_price
    IN  [position EXCEPT
            !.exit_price = Some(exit_price),
            !.exit_time = Some(now),
            !.status = "CLOSED",
            !.pnl = Rat(price_change * quantity.n * entry_price * leverage,
                        entry_price * quantity.d),
            !.pnl_percent = Rat(price_change * 100 * leverage, entry_price),
            !.exit_reason = Some(reason)]

(* pnl = (price_change / entry_price) * quantity * entry_price * leverage  *)
(* pnl_percent = (price_change / entry_price) * 100 * leverage              *)
ClosedPosition(position, now, exit_price, reason) ==
    LET entry_price == position.entry_price
        quantity == position.quantity
        leverage == position.leverage
        price_change == IF position.side = "LONG" THEN exit_price - entry_price
                        ELSE entry_price - exit_price
    IN  [position EXCEPT
            !.exit_price = Some(exit_price),
            !.exit_time = Some(now),
            !.status = "CLOSED",
            !.pnl = Rat(price_change * quantity.n * entry_price * leverage,
                        entry_price * quantity.d),
            !.pnl_percent = Rat(price_change * 100 * leverage, entry_price),
            !.exit_reason = Some(reason)]

(* close_position without its status check: a closed position is closed again *)
close_position_unchecked(store, now, id, exit_price, reason) ==
    IF id \notin DOMAIN store
    THEN [raised |-> Some("not found"), store |-> store]
    ELSE [raised |-> None,
          store |-> [store EXCEPT ![id] = ClosedPosition(store[id], now, exit_price, reason)]]

(* the ValueError raised, or None, and the store after the call *)
close_position(store, now, id, exit_price, reason) ==
    IF id \notin DOMAIN store
    THEN [raised |-> Some("not found"), store |-> store]
    ELSE IF store[id].status # "OPEN"
    THEN [raised |-> Some("is not open"), store |-> store]
    ELSE [raised |-> None,
          store |-> [store EXCEPT ![id] = ClosedPosition(store[id], now, exit_price, reason)]]

get_open_positions(store) == {i \in DOMAIN store : store[i].status = "OPEN"}

(* has_open_position looking at every record of the symbol, closed or not *)
has_open_position_any_status(store, symbol) ==
    \E i \in DOMAIN store : store[i].symbol = symbol

has_open_position(store, symbol) ==
    \E i \in get_open_positions(store) : store[i].symbol = symbol

(* the empty table {} *)
NoStore == [i \in {} |-> None]

(* The positions file.  json.dump writes the table of str, int, float and   *)
(* None values and json.load reads the same table back; what the file holds *)
(* is therefore the table of the last write that went through, or nothing   *)
(* readable.                                                                *)
WrittenFile(store) == [exists |-> TRUE, readable |-> TRUE, table |-> store]
CutFile == [exists |-> TRUE, readable |-> FALSE, table |-> NoStore]

(* save_positions: open(file, 'w') and json.dump inside try; an exception   *)
(* is logged and nothing else.  The write goes through, or open raises and  *)
(* the file stays as it was, or the dump breaks off after open has          *)
(* truncated the file.                                                      *)
WriteOutcomes == {"written", "refused", "cut"}
save_positions(store, file, write) ==
    CASE write = "written" -> WrittenFile(store)
      [] write = "refused" -> file
      [] OTHER -> CutFile

(* load_positions: the table of the file if it exists and json.load reads   *)
(* it; {} if there is no file; {} as well if reading raises                 *)
ReadOutcomes == {"read", "raises"}
load_positions(file, read) ==
    IF file.exists /\ file.readable /\ read = "read" THEN file.table ELSE NoStore

-----------------------------------------------------------------------------
(* The store driven call by call: any caller, any order of add_position and *)
(* close_position, the clock advancing between calls or not.                *)

NoConfig == [s \in {} |-> None]
NoCall == [n |-> 0, op |-> "none", id |-> None, raised |-> None]
IdleLoop ==
    /\ pc = "idle" /\ running = FALSE /\ analysis_results = <<>>
    /\ open_positions = {} /\ hist = <<>> /\ live_events = <<>> /\ calls = <<>>
    /\ bt_out = None
IdleExit == exit_in = None /\ exit_out = None

ExitReasons == {"Take Profit", "Stop Loss"}
AllIds == {position_id(s, t) : s \in Symbols, t \in 0..MaxClock}
SomeRsi == [g |-> 0, l |-> 1, n |-> rsi_period]
(* prices the store-level callers pass: one entry, an exit on either side *)
StoreEntries == {4}
StoreExits == {3, 5}

StoreInit ==
    /\ config = NoConfig
    /\ positions = NoStore
    /\ positions_file = WrittenFile(positions)
    /\ clock = 0
    /\ pm_result = NoCall
    /\ IdleLoop /\ IdleExit

CallAddPosition(symbol, side, entry_price) ==
    LET lv == calculate_take_profit_stop_loss(config, symbol, entry_price, side)
    IN  /\ pm_result.n < MaxCalls
        /\ positions' = add_position(positions, clock, symbol, side,
                            calculate_position_size(config, symbol, entry_price),
                            entry_price, default_leverage,
                            lv.take_profit, lv.stop_loss, SomeRsi)
        /\ positions_file' = save_positions(positions', positions_file, "written")
        /\ pm_result' = [n |-> pm_result.n + 1, op |-> "add",
                         id |-> Some(position_id(symbol, clock)), raised |-> None]
        /\ UNCHANGED <<config, clock, pc, running, analysis_results, open_positions,
                       hist, live_events, calls, bt_out, exit_in, exit_out>>

CallClosePosition(id, exit_price, reason) ==
    LET r == close_position(positions, clock, id, exit_price, reason)
    IN  /\ pm_result.n < MaxCalls
        /\ positions' = r.store
        /\ positions_file' = IF r.raised # None THEN positions_file
                             ELSE save_positions(positions', positions_file, "written")
        /\ pm_result' = [n |-> pm_result.n + 1, op |-> "close",
                         id |-> Some(id), raised |-> r.raised]
        /\ UNCHANGED <<config, clock, pc, running, analysis_results, open_positions,
                       hist, live_events, calls, bt_out, exit_in, exit_out>>

(* a second passes *)
Tick ==
    /\ clock < MaxClock
    /\ clock' = clock + 1
    /\ UNCHANGED <<config, positions, positions_file, pm_result, pc, running, analysis_results,
                   open_positions, hist, live_events, calls, bt_out, exit_in, exit_out>>

StoreNext ==
    \/ \E symbol \in Symbols, side \in Sides, entry_price \in StoreEntries :
          CallAddPosition(symbol, side, entry_price)
    \/ \E id \in AllIds, exit_price \in StoreExits, reason \in ExitReasons :
          CallClosePosition(id, exit_price, reason)
    \/ Tick

SpecStore == StoreInit /\ [][StoreNext]_vars

-----------------------------------------------------------------------------
(* Claims about the store, under SpecStore *)

IsCall(op) == pm_result'.n = pm_result.n + 1 /\ pm_result'.op = op
CalledId == Val(pm_result'.id)

(* C2: add_position for a symbol that already has an OPEN position raises   *)
(* an error and leaves the store as it was.                                 *)
C2_DuplicateOpenFails ==
    [][(IsCall("add") /\ has_open_position(positions, CalledId[1]))
        => (pm_result'.raised # None /\ positions' = positions)]_vars

(* C3: close_position on an id that is not in the store, or on a position   *)
(* that is not OPEN, raises an error and changes no field of any position.  *)
C3_FailedCloseWritesNothing ==
    [][(IsCall("close") /\ (CalledId \notin DOMAIN positions
                            \/ positions[CalledId].status # "OPEN"))
        => (pm_result'.raised # None /\ positions' = positions)]_vars

(* a second close of the same position has been refused *)
C3_Witness ==
    /\ pm_result.op = "close"
    /\ pm_result.raised = Some("is not open")
    /\ Val(pm_result.id) \in DOMAIN positions
    /\ positions[Val(pm_result.id)].status = "CLOSED"

WellFormed(p) ==
    \/ /\ p.status = "OPEN"
       /\ p.exit_price = None /\ p.exit_time = None /\ p.exit_reason = None
    \/ /\ p.status = "CLOSED"
       /\ p.exit_price # None /\ p.exit_time # None /\ p.exit_reason # None

(* C4: every position is OPEN with no exit fields or CLOSED with all of     *)
(* them, and a CLOSED position is never changed again by any call.          *)
C4_ClosedIsFinal ==
    [][/\ \A i \in DOMAIN positions' : WellFormed(positions'[i])
       /\ \A i \in DOMAIN positions :
            positions[i].status = "CLOSED"
                => (i \in DOMAIN positions' /\ positions'[i] = positions[i])]_vars

(* C5: every add_position stores its record under an id that was not in    *)
(* the store: no record is replaced, the store grows by one per open and    *)
(* never shrinks.                                                           *)
C5_FreshIdPerOpen ==
    [][/\ DOMAIN positions \subseteq DOMAIN positions'
       /\ IsCall("add") =>
            /\ CalledId \notin DOMAIN positions
            /\ Cardinality(DOMAIN positions') = Cardinality(DOMAIN positions) + 1
            /\ \A i \in DOMAIN positions : positions'[i] = positions[i]]_vars

(* the openings and closings a driver makes, as both drivers are compared *)
OpenEvent(symbol, entry_price) ==
    [kind |-> "open", symbol |-> symbol, entry_price |-> entry_price,
     exit_price |-> None, exit_reason |-> None, pnl_percent |-> Rat(0, 1)]
CloseEvent(symbol, entry_price, exit_price, exit_reason, pnl_percent) ==
    [kind |-> "close", symbol |-> symbol, entry_price |-> entry_price,
     exit_price |-> Some(exit_price), exit_reason |-> Some(exit_reason),
     pnl_percent |-> pnl_percent]

-----------------------------------------------------------------------------
(* Backtest replay: src/backtest.py, the exit test of run_backtest, made    *)
(* on the levels stored in the position when it was opened                  *)

(* the exit test with strict comparisons *)
backtest_exit_exclusive(position, current_price) ==
    IF position.side = "LONG"
    THEN IF ~LeRat(current_price, position.take_profit)
         THEN [should_close |-> TRUE, exit_reason |-> Some("Take Profit")]
         ELSE IF ~GeRat(current_price, position.stop_loss)
         THEN [should_close |-> TRUE, exit_reason |-> Some("Stop Loss")]
         ELSE [should_close |-> FALSE, exit_reason |-> None]
    ELSE [should_close |-> FALSE, exit_reason |-> None]

backtest_exit(position, current_price) ==
    IF position.side = "LONG"
    THEN IF GeRat(current_price, position.take_profit)
         THEN [should_close |-> TRUE, exit_reason |-> Some("Take Profit")]
         ELSE IF LeRat(current_price, position.stop_loss)
         THEN [should_close |-> TRUE, exit_reason |-> Some("Stop Loss")]
         ELSE [should_close |-> FALSE, exit_reason |-> None]
    ELSE [should_close |-> FALSE, exit_reason |-> None]

(* the evaluator looking at the whole series from every bar *)
bar_analysis_whole_series(cfg, symbol, df, n) == analyze_symbol(cfg, symbol, df)

(* current_data = df.iloc[:i+1], i = n - 1; analyze_symbol(symbol, current_data) *)
bar_analysis(cfg, symbol, df, n) == analyze_symbol(cfg, symbol, SubSeq(df, 1, n))

(* the iteration that opens again on the bar of a close, when the bar's    *)
(* decision is LONG                                                         *)
backtest_bar_reopening(cfg, symbol, df, n, st) ==
    LET analysis == bar_analysis(cfg, symbol, df, n)
        price == Val(analysis.current_price)
        lv == calculate_take_profit_stop_loss(cfg, symbol, price, "LONG")
        opened ==
          [symbol |-> symbol, side |-> "LONG", entry_time |-> n, entry_price |-> price,
           quantity |-> calculate_position_size(cfg, symbol, price),
           take_profit |-> lv.take_profit, stop_loss |-> lv.stop_loss,
           rsi_at_entry |-> Val(analysis.rsi), leverage |-> cfg[symbol].leverage]
    IN  IF st.position = None
        THEN IF analysis.signal = "LONG"
             THEN [st EXCEPT !.position = Some(opened),
                             !.events = Append(@, OpenEvent(symbol, price))]
             ELSE st
        ELSE
        LET position == Val(st.position)
            test == backtest_exit(position, price)
            price_change == price - position.entry_price
            trade ==
              [symbol |-> symbol, side |-> position.side,
               entry_time |-> position.entry_time, exit_time |-> n,
               entry_price |-> position.entry_price, exit_price |-> price,
               quantity |-> position.quantity, leverage |-> position.leverage,
               rsi_at_entry |-> position.rsi_at_entry,
               pnl_percent |-> Rat(price_change * 100 * position.leverage,
                                   position.entry_price),
               pnl_usdt |-> Rat(price_change * cfg[symbol].trade_volume * position.leverage,
                                position.entry_price),
               exit_reason |-> Val(test.exit_reason),
               duration |-> n - position.entry_time]
        IN  IF test.should_close
            THEN [position |-> IF analysis.signal = "LONG" THEN Some(opened) ELSE None,
                  trades |-> Append(st.trades, trade),
                  events |-> Append(st.events,
                                    CloseEvent(symbol, position.entry_price, price,
                                               trade.exit_reason, trade.pnl_percent))]
            ELSE st

(* one iteration of run_backtest's loop, on the n-candle prefix            *)
(* df.iloc[:i+1], i = n - 1.  st.position is the open position or None,     *)
(* st.trades the list so far, st.events the openings and closings in order. *)
backtest_bar(cfg, symbol, df, n, st) ==
    LET analysis == bar_analysis(cfg, symbol, df, n)
        symbol_config == cfg[symbol]
    IN  IF st.position = None
        THEN IF analysis.signal = "LONG"
             THEN LET entry_price == Val(analysis.current_price)
                      lv == calculate_take_profit_stop_loss(cfg, symbol, entry_price, "LONG")
                      opened ==
                        [symbol |-> symbol, side |-> "LONG", entry_time |-> n,
                         entry_price |-> entry_price,
                         quantity |-> calculate_position_size(cfg, symbol, entry_price),
                         take_profit |-> lv.take_profit, stop_loss |-> lv.stop_loss,
                         rsi_at_entry |-> Val(analysis.rsi),
                         leverage |-> symbol_config.leverage]
                  IN  [st EXCEPT !.position = Some(opened),
                                 !.events = Append(@, OpenEvent(symbol, entry_price))]
             ELSE st
        ELSE
        LET position == Val(st.position)
            current_price == Val(analysis.current_price)
            test == backtest_exit(position, current_price)
            price_change == IF position.side = "LONG"
                            THEN current_price - position.entry_price
                            ELSE position.entry_price - current_price
            trade ==
              [symbol |-> symbol, side |-> position.side,
               entry_time |-> position.entry_time, exit_time |-> n,
               entry_price |-> position.entry_price, exit_price |-> current_price,
               quantity |-> position.quantity, leverage |-> position.leverage,
               rsi_at_entry |-> position.rsi_at_entry,
               pnl_percent |-> Rat(price_change * 100 * position.leverage,
                                   position.entry_price),
               pnl_usdt |-> Rat(price_change * symbol_config.trade_volume * position.leverage,
                                position.entry_price),
               exit_reason |-> Val(test.exit_reason),
               duration |-> n - position.entry_time]
        IN  IF test.should_close
            THEN [position |-> None, trades |-> Append(st.trades, trade),
                  events |-> Append(st.events,
                                    CloseEvent(symbol, position.entry_price, current_price,
                                               trade.exit_reason, trade.pnl_percent))]
            ELSE st

(* the iterations on the prefixes of a..b candles, in order.  The range is  *)
(* split in two halves and the first half's result is made a value (by a    *)
(* test that is always true) before the second half runs, which keeps the   *)
(* evaluation shallow on long histories.                                     *)
RECURSIVE BacktestBars(_, _, _, _, _, _)
BacktestBars(cfg, symbol, df, a, b, st) ==
    IF a > b THEN st
    ELSE IF a = b THEN backtest_bar(cfg, symbol, df, a, st)
    ELSE LET mid == (a + b) \div 2
             half == BacktestBars(cfg, symbol, df, a, mid, st)
         IN  IF half.position = None \/ half.position # None
             THEN BacktestBars(cfg, symbol, df, mid + 1, b, half)
             ELSE st

(* run_backtest(symbol, df): range(max(20, 6), len(df)) starts at the       *)
(* 21-candle prefix                                                          *)
first_bar == 20

(* run_backtest closing what is still open at the last candle *)
run_backtest_force_close(cfg, symbol, df) ==
    LET none == [position |-> None, trades |-> <<>>, events |-> <<>>]
        r == IF ~Enabled(cfg, symbol) THEN none
             ELSE BacktestBars(cfg, symbol, df, Max(first_bar, rsi_period) + 1, Len(df), none)
    IN  IF r.position = None THEN r
        ELSE LET position == Val(r.position)
             IN  [r EXCEPT !.position = None,
                           !.trades = Append(@,
                               [symbol |-> symbol, side |-> position.side,
                                entry_time |-> position.entry_time, exit_time |-> Len(df),
                                entry_price |-> position.entry_price,
                                exit_price |-> df[Len(df)],
                                quantity |-> position.quantity,
                                leverage |-> position.leverage,
                                rsi_at_entry |-> position.rsi_at_entry,
                                pnl_percent |-> Rat(0, 1), pnl_usdt |-> Rat(0, 1),
                                exit_reason |-> "End of Data",
                                duration |-> Len(df) - position.entry_time])]

run_backtest(cfg, symbol, df) ==
    LET none == [position |-> None, trades |-> <<>>, events |-> <<>>]
    IN  IF ~Enabled(cfg, symbol) THEN none
        ELSE BacktestBars(cfg, symbol, df, Max(first_bar, rsi_period) + 1, Len(df), none)

-----------------------------------------------------------------------------
(* One exit check on drawn inputs: a position opened under one setting of   *)
(* take_profit_percent / stop_loss_percent and checked under another.       *)

Percents == {0 - 25, 25, 50}
ExitEntries == {0} \cup Closes

PairConfig(tp, sl) ==
    [enabled |-> TRUE, leverage |-> default_leverage,
     trade_volume |-> default_trade_volume, rsi_long_threshold |-> 30,
     shadow_distance_threshold |-> 5, take_profit_percent |-> tp,
     stop_loss_percent |-> sl, non_numeric |-> {}]
ConfigOf(symbol, tp, sl) == [s \in {symbol} |-> PairConfig(tp, sl)]

(* the record execute_trade / run_backtest stores for an entry under cfg *)
OpenedUnder(cfg, symbol, side, entry_price) ==
    LET lv == calculate_take_profit_stop_loss(cfg, symbol, entry_price, side)
    IN  position_data(symbol, 0, side,
                      IF entry_price = 0 THEN Rat(0, 1)
                      ELSE calculate_position_size(cfg, symbol, entry_price),
                      entry_price, cfg[symbol].leverage,
                      lv.take_profit, lv.stop_loss, SomeRsi)

ExitInputs ==
    [symbol : Symbols, side : Sides, entry_price : ExitEntries,
     current_price : Closes, tp_open : Percents, sl_open : Percents,
     tp_now : Percents, sl_now : Percents]

ExitInit ==
    /\ config = NoConfig /\ positions = NoStore /\ clock = 0
    /\ positions_file = WrittenFile(positions)
    /\ pm_result = NoCall
    /\ IdleLoop
    /\ exit_in \in {Some(x) : x \in ExitInputs}
    /\ exit_out = None

(* the position as stored at its opening, and as it would have been stored *)
(* under the settings in force at the check                                 *)
ExitOpened(x) ==
    OpenedUnder(ConfigOf(x.symbol, x.tp_open, x.sl_open), x.symbol, x.side, x.entry_price)
ExitOther(x) ==
    OpenedUnder(ConfigOf(x.symbol, x.tp_now, x.sl_now), x.symbol, x.side, x.entry_price)

CheckExit ==
    LET x == Val(exit_in)
        cfg_now == ConfigOf(x.symbol, x.tp_now, x.sl_now)
    IN  /\ exit_in # None /\ exit_out = None
        /\ exit_out' = Some(
             [live |-> should_close_position(cfg_now, x.symbol, ExitOpened(x), x.current_price),
              live_other |-> should_close_position(cfg_now, x.symbol, ExitOther(x), x.current_price),
              backtest |-> backtest_exit(ExitOpened(x), x.current_price)])
        /\ UNCHANGED <<config, positions, positions_file, clock, pm_result, pc, running,
                       analysis_results, open_positions, hist, live_events, calls, bt_out, exit_in>>

ExitNext == CheckExit

SpecExit == ExitInit /\ [][ExitNext]_vars

-----------------------------------------------------------------------------
(* Claims about the exit check, under SpecExit *)

(* price >= entry*(1 + tp/100) and price <= entry*(1 - sl/100) *)
AtOrAboveTakeProfit(price, entry, tp) == 100 * price >= entry * (100 + tp)
AtOrBelowStopLoss(price, entry, sl) == 100 * price <= entry * (100 - sl)

LiveSays(o, reason) == o.live.close /\ o.live.reason = reason
BacktestSays(o, reason) == o.backtest.should_close /\ o.backtest.exit_reason = Some(reason)

(* C7: for a LONG position with entry price > 0 and positive percentages,   *)
(* the exit check closes with 'Take Profit' iff price >= entry*(1+tp/100),  *)
(* with 'Stop Loss' iff price <= entry*(1-sl/100), and not at all otherwise *)
(* (both bounds inclusive), in should_close_position and in run_backtest's  *)
(* exit test alike.                                                         *)
C7_InclusiveExitRule ==
    exit_out # None =>
    LET x == Val(exit_in)
        o == Val(exit_out)
        p == x.current_price
        e == x.entry_price
    IN  /\ (x.side = "LONG" /\ e > 0 /\ x.tp_now > 0 /\ x.sl_now > 0) =>
            /\ LiveSays(o, "Take Profit") <=> AtOrAboveTakeProfit(p, e, x.tp_now)
            /\ LiveSays(o, "Stop Loss") <=> AtOrBelowStopLoss(p, e, x.sl_now)
            /\ ~o.live.close <=> (~AtOrAboveTakeProfit(p, e, x.tp_now)
                                  /\ ~AtOrBelowStopLoss(p, e, x.sl_now))
        /\ (x.side = "LONG" /\ e > 0 /\ x.tp_open > 0 /\ x.sl_open > 0) =>
            /\ BacktestSays(o, "Take Profit") <=> AtOrAboveTakeProfit(p, e, x.tp_open)
            /\ BacktestSays(o, "Stop Loss") <=> AtOrBelowStopLoss(p, e, x.sl_open)
            /\ ~o.backtest.should_close <=> (~AtOrAboveTakeProfit(p, e, x.tp_open)
                                             /\ ~AtOrBelowStopLoss(p, e, x.sl_open))

(* a price exactly at the take-profit level has closed the position in both *)
C7_Witness ==
    /\ exit_out # None
    /\ Val(exit_in).side = "LONG"
    /\ Val(exit_in).tp_now > 0 /\ Val(exit_in).sl_now > 0
    /\ Val(exit_in).tp_open = Val(exit_in).tp_now
    /\ 100 * Val(exit_in).current_price
         = Val(exit_in).entry_price * (100 + Val(exit_in).tp_now)
    /\ LiveSays(Val(exit_out), "Take Profit")
    /\ BacktestSays(Val(exit_out), "Take Profit")

(* C8: when one price meets the take-profit and the stop-loss condition of  *)
(* a LONG position at once, which needs stop-loss level >= take-profit      *)
(* level, the check reports 'Take Profit', never 'Stop Loss'.               *)
C8_TakeProfitFirst ==
    exit_out # None =>
    LET x == Val(exit_in)
        o == Val(exit_out)
        p == x.current_price
        e == x.entry_price
    IN  /\ (x.side = "LONG" /\ e > 0 /\ AtOrAboveTakeProfit(p, e, x.tp_now)
                /\ AtOrBelowStopLoss(p, e, x.sl_now)) =>
            /\ LiveSays(o, "Take Profit")
            /\ e * (100 - x.sl_now) >= e * (100 + x.tp_now)
        /\ (x.side = "LONG" /\ e > 0 /\ AtOrAboveTakeProfit(p, e, x.tp_open)
                /\ AtOrBelowStopLoss(p, e, x.sl_open)) =>
            /\ BacktestSays(o, "Take Profit")
            /\ e * (100 - x.sl_open) >= e * (100 + x.tp_open)

(* one price has met both conditions of both checks *)
C8_Witness ==
    /\ exit_out # None
    /\ Val(exit_in).side = "LONG" /\ Val(exit_in).entry_price > 0
    /\ AtOrAboveTakeProfit(Val(exit_in).current_price, Val(exit_in).entry_price,
                           Val(exit_in).tp_now)
    /\ AtOrBelowStopLoss(Val(exit_in).current_price, Val(exit_in).entry_price,
                         Val(exit_in).sl_now)
    /\ AtOrAboveTakeProfit(Val(exit_in).current_price, Val(exit_in).entry_price,
                           Val(exit_in).tp_open)
    /\ AtOrBelowStopLoss(Val(exit_in).current_price, Val(exit_in).entry_price,
                         Val(exit_in).sl_open)
    /\ LiveSays(Val(exit_out), "Take Profit")

(* the exit rule on the levels of the settings in force at the check *)
CrossesNow(x) ==
    IF x.side = "LONG"
    THEN AtOrAboveTakeProfit(x.current_price, x.entry_price, x.tp_now)
         \/ AtOrBelowStopLoss(x.current_price, x.entry_price, x.sl_now)
    ELSE 100 * x.current_price <= x.entry_price * (100 - x.tp_now)
         \/ 100 * x.current_price >= x.entry_price * (100 + x.sl_now)

(* C9: should_close_position decides from entry price, side, current price  *)
(* and the settings in force at the check: two positions that differ only   *)
(* in their stored take_profit / stop_loss get the same result, and the     *)
(* levels that count are those of the current percentages.                  *)
C9_ExitFromCurrentConfig ==
    exit_out # None =>
    LET x == Val(exit_in)
        o == Val(exit_out)
    IN  /\ o.live = o.live_other
        /\ x.entry_price > 0 => (o.live.close <=> CrossesNow(x))

(* the percentages changed after the opening and the check no longer agrees *)
(* with the levels stored in the position                                   *)
C9_Witness ==
    /\ exit_out # None
    /\ Val(exit_in).side = "LONG" /\ Val(exit_in).entry_price > 0
    /\ ExitOpened(Val(exit_in)).take_profit # ExitOther(Val(exit_in)).take_profit
    /\ Val(exit_out).live.close # Val(exit_out).backtest.should_close

-----------------------------------------------------------------------------
(* Live driver: src/main.py.  A handler's environment is what its external  *)
(* calls do: the candles and prices they return and which call raises.      *)

klines_limit == 100

(* get_klines(limit=100): the last 100 closes of what the market produced *)
get_klines(closes) ==
    IF Len(closes) <= klines_limit THEN closes
    ELSE SubSeq(closes, Len(closes) - klines_limit + 1, Len(closes))

(* the analysis recorded for a symbol whose get_klines raised *)
AnalysisError(symbol) ==
    [symbol |-> symbol, signal |-> "ERROR", reason |-> <<"exception">>,
     rsi |-> None, bb |-> None, current_price |-> None, config |-> None]

(* enabled symbols in the order of the config's pairs *)
SymbolOrder == <<"BTCUSDT", "ETHUSDT">>
EnabledInOrder(cfg) == SelectSeq(SymbolOrder, LAMBDA sym : Enabled(cfg, sym))

(* analyze_market: dfs[symbol] is the candle window get_klines returns for  *)
(* the symbol, or None when the call raises                                  *)
analyze_market(cfg, dfs) ==
    LET symbols == EnabledInOrder(cfg)
    IN  [k \in 1..Len(symbols) |->
            IF dfs[symbols[k]] = None THEN AnalysisError(symbols[k])
            ELSE analyze_symbol(cfg, symbols[k], Val(dfs[symbols[k]]))]

TradeFailures == {"none", "set_leverage", "place_market_order", "notify_position_opened"}

(* the position taken back when its notification raises *)
TradeAttempt_rollback(cfg, store, now, analysis, raises) ==
    LET symbol == analysis.symbol
        current_price == Val(analysis.current_price)
        lv == calculate_take_profit_stop_loss(cfg, symbol, current_price, "LONG")
        added == add_position(store, now, symbol, "LONG",
                              calculate_position_size(cfg, symbol, current_price),
                              current_price, Val(analysis.config).leverage,
                              lv.take_profit, lv.stop_loss, Val(analysis.rsi))
    IN  IF raises = "none"
        THEN [done |-> TRUE, store |-> added,
              calls |-> <<"set_leverage", "place_market_order",
                          "notify_position_opened">>,
              events |-> <<OpenEvent(symbol, current_price)>>]
        ELSE [done |-> FALSE, store |-> store,
              calls |-> IF raises = "set_leverage"
                        THEN <<"set_leverage", "notify_error">>
                        ELSE IF raises = "place_market_order"
                        THEN <<"set_leverage", "place_market_order", "notify_error">>
                        ELSE <<"set_leverage", "place_market_order",
                               "notify_position_opened", "notify_error">>,
              events |-> <<>>]

(* the position registered although the order raised *)
TradeAttempt_ignoring_order(cfg, store, now, analysis, raises) ==
    LET symbol == analysis.symbol
        current_price == Val(analysis.current_price)
        lv == calculate_take_profit_stop_loss(cfg, symbol, current_price, "LONG")
        added == add_position(store, now, symbol, "LONG",
                              calculate_position_size(cfg, symbol, current_price),
                              current_price, Val(analysis.config).leverage,
                              lv.take_profit, lv.stop_loss, Val(analysis.rsi))
    IN  IF raises = "set_leverage"
        THEN [done |-> FALSE, store |-> store,
              calls |-> <<"set_leverage", "notify_error">>, events |-> <<>>]
        ELSE [done |-> raises = "none", store |-> added,
              calls |-> IF raises = "place_market_order"
                        THEN <<"set_leverage", "place_market_order", "notify_error">>
                        ELSE <<"set_leverage", "place_market_order",
                               "notify_position_opened">>,
              events |-> <<OpenEvent(symbol, current_price)>>]

(* the order placed before the leverage is set *)
TradeAttempt_order_first(cfg, store, now, analysis, raises) ==
    LET symbol == analysis.symbol
        current_price == Val(analysis.current_price)
        lv == calculate_take_profit_stop_loss(cfg, symbol, current_price, "LONG")
        added == add_position(store, now, symbol, "LONG",
                              calculate_position_size(cfg, symbol, current_price),
                              current_price, Val(analysis.config).leverage,
                              lv.take_profit, lv.stop_loss, Val(analysis.rsi))
    IN  IF raises \in {"set_leverage", "place_market_order"}
        THEN [done |-> FALSE, store |-> store,
              calls |-> IF raises = "place_market_order"
                        THEN <<"place_market_order", "notify_error">>
                        ELSE <<"place_market_order", "set_leverage", "notify_error">>,
              events |-> <<>>]
        ELSE [done |-> raises = "none", store |-> added,
              calls |-> <<"place_market_order", "set_leverage", "notify_position_opened">>
                        \o (IF raises = "none" THEN <<>> ELSE <<"notify_error">>),
              events |-> <<OpenEvent(symbol, current_price)>>]

(* the try block of execute_trade.  raises names the external call that   *)
(* raises, if any; the except block then calls notify_error and returns    *)
(* False.  The result is the returned flag, the store, the external calls  *)
(* made and the position opened.                                            *)
TradeAttempt(cfg, store, now, analysis, raises) ==
    LET symbol == analysis.symbol
        current_price == Val(analysis.current_price)
        leverage == Val(analysis.config).leverage
        quantity == calculate_position_size(cfg, symbol, current_price)
        lv == calculate_take_profit_stop_loss(cfg, symbol, current_price, "LONG")
        added == add_position(store, now, symbol, "LONG", quantity, current_price,
                              leverage, lv.take_profit, lv.stop_loss, Val(analysis.rsi))
    IN  CASE raises = "set_leverage" ->
               [done |-> FALSE, store |-> store,
                calls |-> <<"set_leverage", "notify_error">>, events |-> <<>>]
          [] raises = "place_market_order" ->
               [done |-> FALSE, store |-> store,
                calls |-> <<"set_leverage", "place_market_order", "notify_error">>,
                events |-> <<>>]
          [] raises = "notify_position_opened" ->
               [done |-> FALSE, store |-> added,
                calls |-> <<"set_leverage", "place_market_order",
                            "notify_position_opened", "notify_error">>,
                events |-> <<OpenEvent(symbol, current_price)>>]
          [] OTHER ->
               [done |-> TRUE, store |-> added,
                calls |-> <<"set_leverage", "place_market_order",
                            "notify_position_opened">>,
                events |-> <<OpenEvent(symbol, current_price)>>]

(* the skipped trade reported as an error *)
NoTrade_reported(store) ==
    [done |-> FALSE, store |-> store, calls |-> <<"notify_error">>, events |-> <<>>]

NoTrade(store) == [done |-> FALSE, store |-> store, calls |-> <<>>, events |-> <<>>]

(* execute_trade without the has_open_position check *)
execute_trade_unchecked(cfg, store, now, analysis, raises) ==
    IF analysis.signal # "LONG" THEN NoTrade(store)
    ELSE TradeAttempt(cfg, store, now, analysis, raises)

execute_trade(cfg, store, now, analysis, raises) ==
    IF analysis.signal # "LONG" THEN NoTrade(store)
    ELSE IF has_open_position(store, analysis.symbol) THEN NoTrade(store)
    ELSE TradeAttempt(cfg, store, now, analysis, raises)

MonitorFailures == {"none", "get_current_price", "close_position", "notify_position_closed"}

(* the record closed although the exchange's close order raised *)
monitor_position_closing_anyway(cfg, store, now, id, price, raises) ==
    LET position == store[id]
        symbol == position.symbol
        verdict == should_close_position(cfg, symbol, position, price)
        closed == close_position(store, now, id, price, verdict.reason)
    IN  IF raises = "get_current_price"
        THEN [store |-> store, calls |-> <<"get_current_price", "logger.error">>,
              events |-> <<>>]
        ELSE IF ~verdict.close
        THEN [store |-> store, calls |-> <<"get_current_price">>, events |-> <<>>]
        ELSE IF closed.raised # None
        THEN [store |-> store,
              calls |-> <<"get_current_price", "close_position", "logger.error">>,
              events |-> <<>>]
        ELSE IF raises = "close_position"
        THEN [store |-> closed.store,
              calls |-> <<"get_current_price", "close_position", "logger.error">>,
              events |-> <<>>]
        ELSE [store |-> closed.store,
              calls |-> <<"get_current_price", "close_position", "notify_position_closed">>
                        \o (IF raises = "notify_position_closed"
                            THEN <<"logger.error">> ELSE <<>>),
              events |-> <<CloseEvent(symbol, position.entry_price, price, verdict.reason,
                                      closed.store[id].pnl_percent)>>]

(* one turn of monitor_positions' loop, for the position id of the snapshot: *)
(* price is what get_current_price returns, raises the call that raises; the *)
(* except block logs the error and the loop goes on                          *)
monitor_position(cfg, store, now, id, price, raises) ==
    LET position == store[id]
        symbol == position.symbol
        verdict == should_close_position(cfg, symbol, position, price)
        closed == close_position(store, now, id, price, verdict.reason)
    IN  IF raises = "get_current_price"
        THEN [store |-> store, calls |-> <<"get_current_price", "logger.error">>,
              events |-> <<>>]
        ELSE IF ~verdict.close
        THEN [store |-> store, calls |-> <<"get_current_price">>, events |-> <<>>]
        ELSE IF raises = "close_position"
        THEN [store |-> store,
              calls |-> <<"get_current_price", "close_position", "logger.error">>,
              events |-> <<>>]
        ELSE IF closed.raised # None
        THEN [store |-> store,
              calls |-> <<"get_current_price", "close_position", "logger.error">>,
              events |-> <<>>]
        ELSE [store |-> closed.store,
              calls |-> <<"get_current_price", "close_position", "notify_position_closed">>
                        \o (IF raises = "notify_position_closed"
                            THEN <<"logger.error">> ELSE <<>>),
              events |-> <<CloseEvent(symbol, position.entry_price, price, verdict.reason,
                                      closed.store[id].pnl_percent)>>]

validate_configuration(cfg) ==
    /\ get_enabled_symbols(cfg) # {}
    /\ \A symbol \in get_enabled_symbols(cfg) : validate_symbol_config(cfg, symbol)

-----------------------------------------------------------------------------
(* The trading loop under any market and any failures *)

Flat(n, p) == [i \in 1..n |-> p]

(* the windows the exchange may return: 100 candles, all flat or the last   *)
(* one a step below the rest, and a window one candle too short             *)
LiveWindows ==
    {Flat(klines_limit - 1, WarmClose) \o <<c>> : c \in {WarmClose, WarmClose - 1}}
        \cup {Flat(bb_period - 1, WarmClose)}

BothOn == [s \in Symbols |-> PairConfig(25, 25)]
EthOff == [BothOn EXCEPT !["ETHUSDT"].enabled = FALSE]
LiveConfigs == {BothOn, EthOff}

(* the stores a run may find in its positions file: none, or an earlier     *)
(* run's open position                                                       *)
EarlierOpen == OpenedUnder(BothOn, "BTCUSDT", "LONG", 4)
InitialStores == {NoStore, [i \in {EarlierOpen.id} |-> EarlierOpen]}

SymbolIndex(sym) == CHOOSE k \in 1..Len(SymbolOrder) : SymbolOrder[k] = sym
(* the dict keeps insertion order: by second, then by the trade loop's order *)
InsertedBefore(i, j) ==
    i[2] < j[2] \/ (i[2] = j[2] /\ SymbolIndex(i[1]) <= SymbolIndex(j[1]))
FirstOf(ids) == CHOOSE i \in ids : \A j \in ids : InsertedBefore(i, j)

LiveInit ==
    /\ config \in LiveConfigs
    /\ positions \in InitialStores
    /\ positions_file = WrittenFile(positions)
    /\ clock = 1
    /\ pm_result = NoCall
    /\ pc = "start" /\ running = FALSE /\ analysis_results = <<>>
    /\ open_positions = {} /\ hist = <<>> /\ live_events = <<>> /\ calls = <<>>
    /\ bt_out = None
    /\ IdleExit

(* start(): validate_configuration, get_account_info, run_trading_loop *)
Start(account_ok) ==
    /\ pc = "start"
    /\ IF validate_configuration(config) /\ account_ok
       THEN running' = TRUE /\ pc' = "analyze"
       ELSE running' = running /\ pc' = "failed"
    /\ UNCHANGED <<config, positions, positions_file, clock, pm_result, analysis_results,
                   open_positions, hist, live_events, calls, bt_out, exit_in, exit_out>>

(* while self.running: analysis_results = self.analyze_market() *)
AnalyzeMarket(dfs) ==
    /\ pc = "analyze" /\ running
    /\ analysis_results' = analyze_market(config, dfs)
    /\ pc' = "trade"
    /\ UNCHANGED <<config, positions, positions_file, clock, pm_result, running, open_positions,
                   hist, live_events, calls, bt_out, exit_in, exit_out>>

(* the trade loop left at the first attempt that fails *)
ExecuteTrade_aborting(raises, write) ==
    /\ pc = "trade" /\ analysis_results # <<>>
    /\ LET r == execute_trade(config, positions, clock, Head(analysis_results), raises)
       IN  /\ positions' = r.store
           /\ positions_file' = IF r.store = positions THEN positions_file
                                ELSE save_positions(r.store, positions_file, write)
           /\ calls' = r.calls
           /\ live_events' = live_events \o r.events
           /\ analysis_results' = IF r.done \/ r.calls = <<>>
                                  THEN Tail(analysis_results) ELSE <<>>
    /\ UNCHANGED <<config, clock, pm_result, pc, running, open_positions, hist,
                   bt_out, exit_in, exit_out>>

(* for analysis in analysis_results: if LONG: self.execute_trade(analysis) *)
ExecuteTrade(raises, write) ==
    /\ pc = "trade" /\ analysis_results # <<>>
    /\ LET r == execute_trade(config, positions, clock, Head(analysis_results), raises)
       IN  /\ positions' = r.store
           /\ positions_file' = IF r.store = positions THEN positions_file
                                ELSE save_positions(r.store, positions_file, write)
           /\ calls' = r.calls
           /\ live_events' = live_events \o r.events
    /\ analysis_results' = Tail(analysis_results)
    /\ UNCHANGED <<config, clock, pm_result, pc, running, open_positions, hist,
                   bt_out, exit_in, exit_out>>

(* the snapshot taken of the positions opened in this cycle only *)
BeginMonitor_new_only ==
    /\ pc = "trade" /\ analysis_results = <<>>
    /\ open_positions' = {i \in get_open_positions(positions) : positions[i].entry_time = clock}
    /\ pc' = "monitor"
    /\ UNCHANGED <<config, positions, positions_file, clock, pm_result, running, analysis_results,
                   hist, live_events, calls, bt_out, exit_in, exit_out>>

(* monitor_positions: open_positions = get_open_positions() *)
BeginMonitor ==
    /\ pc = "trade" /\ analysis_results = <<>>
    /\ open_positions' = get_open_positions(positions)
    /\ pc' = "monitor"
    /\ UNCHANGED <<config, positions, positions_file, clock, pm_result, running, analysis_results,
                   hist, live_events, calls, bt_out, exit_in, exit_out>>

(* for position in open_positions: ... *)
MonitorPosition(price, raises, write) ==
    /\ pc = "monitor" /\ open_positions # {}
    /\ LET id == FirstOf(open_positions)
           r == monitor_position(config, positions, clock, id, price, raises)
       IN  /\ positions' = r.store
           /\ positions_file' = IF r.store = positions THEN positions_file
                                ELSE save_positions(r.store, positions_file, write)
           /\ calls' = r.calls
           /\ live_events' = live_events \o r.events
           /\ open_positions' = open_positions \ {id}
    /\ UNCHANGED <<config, clock, pm_result, pc, running, analysis_results, hist,
                   bt_out, exit_in, exit_out>>

(* the summary and time.sleep(60): the next cycle starts in a later second. *)
(* The clock is followed up to MaxClock for a loop that may run another     *)
(* cycle; once the flag is cleared no cycle follows and the sleep passes.   *)
EndCycle ==
    /\ pc = "monitor" /\ open_positions = {}
    /\ clock < MaxClock \/ ~running
    /\ clock' = clock + 1
    /\ calls' = <<"time.sleep(60)">>
    /\ pc' = "analyze"
    /\ UNCHANGED <<config, positions, positions_file, pm_result, running, analysis_results,
                   open_positions, hist, live_events, bt_out, exit_in, exit_out>>

(* an uncaught exception ending the loop *)
CycleError_fatal ==
    /\ pc \in {"trade", "monitor"} \/ (pc = "analyze" /\ running)
    /\ clock < MaxClock
    /\ clock' = clock + 1
    /\ analysis_results' = <<>> /\ open_positions' = {}
    /\ calls' = <<"logger.error">>
    /\ pc' = "stopped"
    /\ UNCHANGED <<config, positions, positions_file, pm_result, running, hist, live_events,
                   bt_out, exit_in, exit_out>>

(* except Exception: an exception that no handler of the cycle caught       *)
(* leaves analyze_market, the trade loop, monitor_positions or the summary; *)
(* the rest of the cycle is abandoned, the error logged, and the loop       *)
(* sleeps 30 seconds before it tests self.running again                      *)
CycleError ==
    /\ pc \in {"trade", "monitor"} \/ (pc = "analyze" /\ running)
    /\ clock < MaxClock \/ ~running
    /\ clock' = clock + 1
    /\ analysis_results' = <<>> /\ open_positions' = {}
    /\ calls' = <<"logger.error", "time.sleep(30)">>
    /\ pc' = "analyze"
    /\ UNCHANGED <<config, positions, positions_file, pm_result, running, hist, live_events,
                   bt_out, exit_in, exit_out>>

(* except KeyboardInterrupt: break *)
KeyboardInterrupt ==
    /\ pc \in {"trade", "monitor"} \/ (pc = "analyze" /\ running)
    /\ analysis_results' = <<>> /\ open_positions' = {}
    /\ calls' = <<"logger.info">>
    /\ pc' = "stopped"
    /\ UNCHANGED <<config, positions, positions_file, clock, pm_result, running, hist, live_events,
                   bt_out, exit_in, exit_out>>

(* while self.running is false: the loop ends *)
ExitLoop ==
    /\ pc = "analyze" /\ ~running
    /\ pc' = "stopped"
    /\ UNCHANGED <<config, positions, positions_file, clock, pm_result, running, analysis_results,
                   open_positions, hist, live_events, calls, bt_out, exit_in, exit_out>>

(* a handler that ends the loop where it stands *)
SignalHandler_exiting ==
    /\ running
    /\ running' = FALSE
    /\ calls' = <<"logger.info">>
    /\ pc' = "stopped"
    /\ UNCHANGED <<config, positions, positions_file, clock, pm_result, analysis_results,
                   open_positions, hist, live_events, bt_out, exit_in, exit_out>>

(* signal_handler: SIGINT / SIGTERM at any point of the loop; it logs the  *)
(* signal and clears the flag                                               *)
SignalHandler ==
    /\ running
    /\ running' = FALSE
    /\ calls' = <<"logger.info">>
    /\ UNCHANGED <<config, positions, positions_file, clock, pm_result, pc, analysis_results,
                   open_positions, hist, live_events, bt_out, exit_in, exit_out>>

LiveNext ==
    \/ \E account_ok \in BOOLEAN : Start(account_ok)
    \/ \E dfs \in [Symbols -> {None} \cup {Some(w) : w \in LiveWindows}] :
          AnalyzeMarket(dfs)
    \/ \E raises \in TradeFailures : ExecuteTrade(raises, "written")
    \/ BeginMonitor
    \/ \E price \in Closes, raises \in MonitorFailures : MonitorPosition(price, raises, "written")
    \/ EndCycle
    \/ CycleError
    \/ KeyboardInterrupt
    \/ ExitLoop
    \/ SignalHandler

SpecLive == LiveInit /\ [][LiveNext]_vars

(* the loop is one sequential program whose external calls return or       *)
(* raise: it takes its while test, into analyze_market or out of the loop,  *)
(* and each turn of its for loops and its sleep come to an end              *)
LiveFairness ==
    /\ WF_vars(\E dfs \in [Symbols -> {None} \cup {Some(w) : w \in LiveWindows}] :
                  AnalyzeMarket(dfs))
    /\ WF_vars(\E raises \in TradeFailures : ExecuteTrade(raises, "written"))
    /\ WF_vars(BeginMonitor)
    /\ WF_vars(\E price \in Closes, raises \in MonitorFailures :
                  MonitorPosition(price, raises, "written"))
    /\ WF_vars(EndCycle)
    /\ WF_vars(ExitLoop)

(* the fair loop is followed with one enabled symbol *)
FairInit == LiveInit /\ config = EthOff

SpecLiveFair == FairInit /\ [][LiveNext]_vars /\ LiveFairness

(* C1: from a store with at most one OPEN position per symbol, through any  *)
(* trading cycles, signals, prices and exchange or notifier failures, the   *)
(* store holds at most one OPEN position per symbol.                        *)
C1_OneOpenPerSymbol ==
    \A sym \in Symbols :
        Cardinality({i \in get_open_positions(positions) : positions[i].symbol = sym}) <= 1

(* a symbol whose first position was closed holds its second one, opened   *)
(* by a later LONG decision                                                  *)
C1_Witness ==
    \E i, j \in DOMAIN positions :
        /\ positions[i].symbol = positions[j].symbol
        /\ positions[i].status = "CLOSED"
        /\ positions[j].status = "OPEN"
        /\ positions[j].entry_time > 1

-----------------------------------------------------------------------------
(* Both drivers on one market: the exchange never fails, the ticker shows   *)
(* the last close, and after each live cycle the backtester is run on the   *)
(* candles seen so far                                                       *)

EquivSymbol == "BTCUSDT"
EquivVolumes == {default_trade_volume, 2 * default_trade_volume}
EquivThresholds == {30, 50}
EquivConfigs ==
    {[s \in {EquivSymbol} |->
        [PairConfig(25, 25) EXCEPT !.trade_volume = tv, !.rsi_long_threshold = th]] :
        tv \in EquivVolumes, th \in EquivThresholds}

(* the history before the first cycle: as many candles as the backtester    *)
(* skips, or a full window of get_klines                                    *)
WarmLengths == {Max(first_bar, rsi_period), klines_limit}

EquivInit ==
    /\ config \in EquivConfigs
    /\ positions = NoStore
    /\ positions_file = WrittenFile(positions)
    /\ clock = 1
    /\ pm_result = NoCall
    /\ pc = "start" /\ running = FALSE /\ analysis_results = <<>>
    /\ open_positions = {} /\ live_events = <<>> /\ calls = <<>>
    /\ hist \in {Flat(w, WarmClose) \o <<c>> : w \in WarmLengths, c \in Closes}
    /\ bt_out = None
    /\ IdleExit

(* python backtest.py on the candles of the market so far *)
Replay ==
    /\ pc = "monitor" /\ open_positions = {}
    /\ bt_out' = Some(run_backtest(config, EquivSymbol, hist))
    /\ pc' = "replayed"
    /\ UNCHANGED <<config, positions, positions_file, clock, pm_result, running, analysis_results,
                   open_positions, hist, live_events, calls, exit_in, exit_out>>

(* time.sleep(60), during which the market closes the next candle *)
NextCandle(c) ==
    /\ pc = "replayed"
    /\ clock < MaxTail
    /\ clock' = clock + 1
    /\ hist' = Append(hist, c)
    /\ calls' = <<"time.sleep(60)">>
    /\ pc' = "analyze"
    /\ UNCHANGED <<config, positions, positions_file, pm_result, running, analysis_results,
                   open_positions, live_events, bt_out, exit_in, exit_out>>

LastClose == hist[Len(hist)]

EquivNext ==
    \/ Start(TRUE)
    \/ AnalyzeMarket([s \in Symbols |-> Some(get_klines(hist))])
    \/ ExecuteTrade("none", "written")
    \/ BeginMonitor
    \/ MonitorPosition(LastClose, "none", "written")
    \/ Replay
    \/ \E c \in Closes : NextCandle(c)

SpecEquiv == EquivInit /\ [][EquivNext]_vars

EventEq(a, b) ==
    /\ a.kind = b.kind /\ a.symbol = b.symbol
    /\ a.entry_price = b.entry_price
    /\ a.exit_price = b.exit_price
    /\ a.exit_reason = b.exit_reason
    /\ RatEq(a.pnl_percent, b.pnl_percent)

(* C6: fed the same candles, with the ticker at the last close, a constant  *)
(* config and no exchange failures, the live loop and the backtester make   *)
(* the same sequence of open and close events, with the same entry price,   *)
(* exit price, exit reason and pnl_percent.                                 *)
C6_SameLifecycle ==
    pc = "replayed" =>
        LET bt == Val(bt_out).events
        IN  /\ Len(live_events) = Len(bt)
            /\ \A k \in 1..Len(bt) : EventEq(live_events[k], bt[k])

(* both drivers opened, closed at a level reached exactly, and opened again *)
C6_Witness ==
    /\ pc = "replayed"
    /\ Len(live_events) >= 3
    /\ Len(Val(bt_out).events) >= 3
    /\ live_events[2].kind = "close"
    /\ live_events[3].kind = "open"

(* both drivers closed a trade on the stop loss level itself *)
C6_WitnessStop ==
    /\ pc = "replayed"
    /\ \E k \in 1..Len(live_events) :
          /\ live_events[k].exit_reason = Some("Stop Loss")
          /\ Val(bt_out).events[k].exit_reason = Some("Stop Loss")

Sized(quantity, entry_price, symbol) ==
    quantity.n * entry_price = config[symbol].trade_volume * quantity.d

(* C10: every position either driver opened has quantity * entry price     *)
(* equal to the symbol's configured trade_volume, the entry price recorded  *)
(* being the price the position was sized with.                             *)
C10_SizedByTradeVolume ==
    /\ \A i \in DOMAIN positions :
          Sized(positions[i].quantity, positions[i].entry_price, positions[i].symbol)
    /\ bt_out # None =>
          /\ \A k \in 1..Len(Val(bt_out).trades) :
                LET t == Val(bt_out).trades[k]
                IN  Sized(t.quantity, t.entry_price, t.symbol)
          /\ Val(bt_out).position # None =>
                LET q == Val(Val(bt_out).position)
                IN  Sized(q.quantity, q.entry_price, q.symbol)

(* a configured volume other than the default sized a live position and a  *)
(* backtest trade, and the backtester holds a further open position         *)
C10_Witness ==
    /\ config[EquivSymbol].trade_volume # default_trade_volume
    /\ bt_out # None
    /\ Val(bt_out).trades # <<>>
    /\ Val(bt_out).position # None
    /\ \E i \in DOMAIN positions : positions[i].status = "OPEN"

-----------------------------------------------------------------------------
(* The two drivers' records of one trade *)

(* the backtester counts candles from the start of the history, the live   *)
(* loop counts its cycles: the bar of the history that cycle t closed       *)
BarOfCycle(t) == t + Len(hist) - clock

(* the live record p and the backtest trade t are the same trade *)
SameTrade(p, t) ==
    /\ p.status = "CLOSED"
    /\ p.symbol = t.symbol
    /\ BarOfCycle(p.entry_time) = t.entry_time
    /\ BarOfCycle(Val(p.exit_time)) = t.exit_time

BacktestTrades == IF bt_out = None THEN <<>> ELSE Val(bt_out).trades

(* C11: for the same entry price, exit price, leverage and trade volume,    *)
(* the pnl of PositionManager.close_position (on quantity * entry_price)    *)
(* equals the pnl_usdt of run_backtest (on the config's trade_volume), and  *)
(* both report pnl_percent = (priceChange / entryPrice) * 100 * leverage.   *)
C11_SamePnl ==
    pc = "replayed" =>
        \A i \in DOMAIN positions : \A k \in 1..Len(BacktestTrades) :
            LET p == positions[i]
                t == BacktestTrades[k]
            IN  SameTrade(p, t) =>
                  /\ p.entry_price = t.entry_price
                  /\ p.exit_price = Some(t.exit_price)
                  /\ p.leverage = t.leverage
                  /\ RatEq(p.pnl, t.pnl_usdt)
                  /\ RatEq(p.pnl_percent, t.pnl_percent)
                  /\ RatEq(p.pnl_percent,
                           Rat((t.exit_price - t.entry_price) * 100 * t.leverage,
                               t.entry_price))

(* a trade sized with a volume other than the default, closed at a loss by  *)
(* both drivers                                                              *)
C11_Witness ==
    /\ pc = "replayed"
    /\ config[EquivSymbol].trade_volume # default_trade_volume
    /\ \E i \in DOMAIN positions : \E k \in 1..Len(BacktestTrades) :
          /\ SameTrade(positions[i], BacktestTrades[k])
          /\ RatSign(positions[i].pnl) < 0
          /\ RatSign(BacktestTrades[k].pnl_usdt) < 0

-----------------------------------------------------------------------------
(* One cycle of the live loop on a window that gives a LONG decision, with *)
(* the ticker at a drawn price when the new position is monitored           *)

LevelSymbol == "BTCUSDT"
LevelEntries == {4, 100}
LevelPrices == {3, 4, 5, 98, 99, 100, 101, 102}
LevelConfigs ==
    {[s \in {LevelSymbol} |-> [PairConfig(tp, sl) EXCEPT !.leverage = lv]] :
        tp \in {2, 25}, sl \in {1, 25}, lv \in {1, default_leverage}}

(* nineteen candles a quarter above the last one *)
DropTo(entry) == Flat(bb_period - 1, (5 * entry) \div 4) \o <<entry>>

(* what analyze_symbol returns on DropTo(entry): rsi is 0 and the price is  *)
(* some 11% below the lower band, a LONG under every LevelConfigs            *)
LongAnalysis(cfg, symbol, df) ==
    [symbol |-> symbol, signal |-> "LONG",
     reason |-> <<"RSI < threshold", "price below BB lower">>,
     rsi |-> Some(RsiAt(df, rsi_period, Len(df))),
     bb |-> Some(BandsAt(df, bb_period, bb_std_dev, Len(df))),
     current_price |-> Some(df[Len(df)]), config |-> Some(cfg[symbol])]

(* the loop after analyze_market returned the LONG decision *)
LevelInit ==
    /\ config \in LevelConfigs
    /\ positions = NoStore
    /\ positions_file = WrittenFile(positions)
    /\ clock = 1
    /\ pm_result = NoCall
    /\ pc = "trade" /\ running = TRUE
    /\ \E e \in LevelEntries :
          /\ hist = DropTo(e)
          /\ analysis_results = <<LongAnalysis(config, LevelSymbol, DropTo(e))>>
    /\ open_positions = {} /\ live_events = <<>> /\ calls = <<>>
    /\ bt_out = None
    /\ exit_in \in {Some([current_price |-> p]) : p \in LevelPrices}
    /\ exit_out = None

LevelNext ==
    \/ ExecuteTrade("none", "written")
    \/ BeginMonitor
    \/ MonitorPosition(Val(exit_in).current_price, "none", "written")

SpecLevel == LevelInit /\ [][LevelNext]_vars

Monitored == pc = "monitor" /\ open_positions = {}

(* C12: a LONG position closed exactly at its stop-loss level gets reason   *)
(* 'Stop Loss' and pnl_percent = -(stop_loss_percent * leverage); closed    *)
(* exactly at its take-profit level it gets 'Take Profit' and pnl_percent = *)
(* take_profit_percent * leverage.                                          *)
C12_PnlAtTheLevels ==
    Monitored =>
        \A i \in DOMAIN positions :
            LET p == positions[i]
                c == config[p.symbol]
                price == Val(exit_in).current_price
            IN  /\ RatEq(p.stop_loss, Rat(p.entry_price * (100 - c.stop_loss_percent), 100))
                /\ RatEq(p.take_profit, Rat(p.entry_price * (100 + c.take_profit_percent), 100))
                /\ RatEq(Rat(price, 1), p.stop_loss) =>
                     /\ p.status = "CLOSED"
                     /\ p.exit_price = Some(price)
                     /\ p.exit_reason = Some("Stop Loss")
                     /\ RatEq(p.pnl_percent, Rat(0 - c.stop_loss_percent * c.leverage, 1))
                /\ RatEq(Rat(price, 1), p.take_profit) =>
                     /\ p.status = "CLOSED"
                     /\ p.exit_price = Some(price)
                     /\ p.exit_reason = Some("Take Profit")
                     /\ RatEq(p.pnl_percent, Rat(c.take_profit_percent * c.leverage, 1))

(* entry 100, leverage 10, stop loss 1%: the level is 99 and the exit at 99 *)
(* is a 'Stop Loss' of -10%                                                  *)
C12_Witness ==
    /\ Monitored
    /\ \E i \in DOMAIN positions :
          /\ positions[i].entry_price = 100 /\ positions[i].leverage = 10
          /\ config[LevelSymbol].stop_loss_percent = 1
          /\ RatEq(positions[i].stop_loss, Rat(99, 1))
          /\ positions[i].exit_price = Some(99)
          /\ positions[i].exit_reason = Some("Stop Loss")
          /\ RatEq(positions[i].pnl_percent, Rat(0 - 10, 1))

(* the same entry with take profit 2%: the exit at 102 is a 'Take Profit'   *)
(* of +20%                                                                   *)
C12_WitnessRise ==
    /\ Monitored
    /\ \E i \in DOMAIN positions :
          /\ positions[i].entry_price = 100 /\ positions[i].leverage = 10
          /\ config[LevelSymbol].take_profit_percent = 2
          /\ positions[i].exit_price = Some(102)
          /\ positions[i].exit_reason = Some("Take Profit")
          /\ RatEq(positions[i].pnl_percent, Rat(20, 1))

-----------------------------------------------------------------------------
(* The lifecycle of a symbol's positions, in both drivers *)

(* the step is execute_trade on a LONG decision for sym, which holds no     *)
(* open position                                                             *)
LongDecisionFor(sym) ==
    /\ pc = "trade" /\ analysis_results # <<>>
    /\ analysis_results' = Tail(analysis_results)
    /\ Head(analysis_results).signal = "LONG"
    /\ Head(analysis_results).symbol = sym
    /\ ~has_open_position(positions, sym)

(* the step closes the open position of sym *)
ClosesFor(sym) ==
    \E i \in get_open_positions(positions) :
        /\ positions[i].symbol = sym
        /\ i \in DOMAIN positions' /\ positions'[i].status = "CLOSED"

LiveLifecycleStep ==
    /\ DOMAIN positions \subseteq DOMAIN positions'
    /\ \A i \in DOMAIN positions :
          positions[i].status = "CLOSED" => positions'[i] = positions[i]
    /\ \A sym \in Symbols :
          /\ ClosesFor(sym) => ~has_open_position(positions', sym)
          /\ LongDecisionFor(sym) =>
                \E j \in DOMAIN positions' \ DOMAIN positions :
                    /\ positions'[j].symbol = sym /\ positions'[j].status = "OPEN"
                    /\ get_open_positions(positions') = get_open_positions(positions) \cup {j}

BacktestLifecycle ==
    bt_out # None =>
        LET trades == Val(bt_out).trades
            open == Val(bt_out).position
        IN  /\ \A k \in 1..Len(trades) : trades[k].entry_time < trades[k].exit_time
            /\ \A k \in 1..(Len(trades) - 1) : trades[k].exit_time < trades[k + 1].entry_time
            /\ (open # None /\ trades # <<>>) =>
                  trades[Len(trades)].exit_time < Val(open).entry_time

(* C13: per symbol the lifecycle is NONE -> OPEN -> CLOSED -> NONE.  After  *)
(* the symbol's open position is closed has_open_position(symbol) is false  *)
(* while the closed record stays in the store unchanged, and the next LONG  *)
(* decision for the symbol opens a new record under an id of its own; the   *)
(* backtester's trades follow one another, each opened after the one        *)
(* before it was closed.                                                     *)
C13_Lifecycle == [][LiveLifecycleStep]_vars /\ []BacktestLifecycle

(* both drivers hold a closed trade of the symbol and a later open position *)
C13_Witness ==
    /\ pc = "replayed"
    /\ \E i, j \in DOMAIN positions :
          /\ positions[i].symbol = positions[j].symbol /\ i # j
          /\ positions[i].status = "CLOSED" /\ positions[j].status = "OPEN"
          /\ Val(positions[i].exit_time) < positions[j].entry_time
    /\ Val(bt_out).trades # <<>> /\ Val(bt_out).position # None
    /\ Val(bt_out).trades[1].exit_time < Val(Val(bt_out).position).entry_time

-----------------------------------------------------------------------------
(* The evaluator on drawn windows: analyze_symbol called once for a symbol, *)
(* under a config that holds the symbol enabled, disabled or not at all     *)

Tails == UNION {[1..n -> Closes] : n \in 0..MaxTail}
WarmSizes == {0, bb_period - MaxTail - 1, bb_period - MaxTail, bb_period - 1, bb_period}

(* twenty closes with mean 4 and sample deviation 2: the lower band is 0 *)
ZeroBand == <<7, 7, 7, 7, 1, 1, 1, 1, 5, 5, 3, 3, 4, 4, 4, 4, 4, 4, 4, 4>>

SignalWindows ==
    {Flat(n, w) \o tail : n \in WarmSizes, w \in Closes, tail \in Tails} \cup {ZeroBand}

SignalThresholds == {30, 50}
SignalDistances == {0, 5}
SignalPairs ==
    {[PairConfig(25, 25) EXCEPT !.rsi_long_threshold = th,
                                !.shadow_distance_threshold = ds] :
        th \in SignalThresholds, ds \in SignalDistances}

(* BTCUSDT enabled; ETHUSDT disabled, or missing from the pairs *)
SignalConfigs ==
    {[s \in Symbols |-> IF s = "BTCUSDT" THEN c ELSE [c EXCEPT !.enabled = FALSE]] :
        c \in SignalPairs}
    \cup {[s \in {"BTCUSDT"} |-> c] : c \in SignalPairs}

SignalInit ==
    /\ config \in SignalConfigs
    /\ positions = NoStore /\ clock = 0
    /\ positions_file = WrittenFile(positions)
    /\ pm_result = NoCall
    /\ pc = "idle" /\ running = FALSE /\ analysis_results = <<>>
    /\ open_positions = {} /\ live_events = <<>> /\ calls = <<>>
    /\ hist \in SignalWindows
    /\ bt_out = None
    /\ exit_in \in {Some([symbol |-> sym]) : sym \in Symbols}
    /\ exit_out = None

(* analysis = self.strategy.analyze_symbol(symbol, df) *)
Evaluate ==
    /\ pc = "idle"
    /\ analysis_results' = <<analyze_symbol(config, Val(exit_in).symbol, hist)>>
    /\ pc' = "evaluated"
    /\ UNCHANGED <<config, positions, positions_file, clock, pm_result, running, open_positions,
                   hist, live_events, calls, bt_out, exit_in, exit_out>>

SignalNext == Evaluate

SpecSignal == SignalInit /\ [][SignalNext]_vars

-----------------------------------------------------------------------------
(* Claims about the evaluator, under SpecSignal *)

Evaluated == pc = "evaluated"
Asked == Val(exit_in).symbol
Answer == analysis_results[1]
Sufficient == Len(hist) >= 20

(* the two conditions on the last values of the window *)
RsiHolds == RsiLess(RsiAt(hist, rsi_period, Len(hist)), config[Asked].rsi_long_threshold)
DistanceHolds ==
    DistanceAtLeast(hist[Len(hist)], BandsAt(hist, bb_period, bb_std_dev, Len(hist)),
                    config[Asked].shadow_distance_threshold)

(* C14: for an enabled symbol and a sufficient window the evaluator returns *)
(* LONG iff rsi < rsi_long_threshold and the percentage of the price below  *)
(* the lower band is >= shadow_distance_threshold, on the last values of    *)
(* the series, and NONE otherwise; the percentage is                        *)
(* (lower - price)/lower*100, and 0 when the lower band is 0.               *)
C14_LongIffBoth ==
    (Evaluated /\ Enabled(config, Asked) /\ Sufficient) =>
        /\ Answer.signal \in {"LONG", "NONE"}
        /\ Answer.signal = "LONG" <=> (RsiHolds /\ DistanceHolds)
        /\ Answer.current_price = Some(hist[Len(hist)])
        /\ Answer.rsi = Some(RsiAt(hist, rsi_period, Len(hist)))
        /\ Answer.bb = Some(BandsAt(hist, bb_period, bb_std_dev, Len(hist)))
        (* lower band 0: the distance is 0 *)
        /\ hist = ZeroBand =>
              /\ LowerSign(Val(Answer.bb)) = 0
              /\ DistanceHolds <=> config[Asked].shadow_distance_threshold <= 0
        (* a flat window: the price is on the lower band, the distance is 0 *)
        /\ (\E w \in Closes : hist = Flat(Len(hist), w)) =>
              (DistanceHolds <=> config[Asked].shadow_distance_threshold <= 0)
        (* nineteen closes of 5 and one of 4: lower = 4.5028, distance 11.2% *)
        /\ hist = Flat(19, 5) \o <<4>> => DistanceHolds

(* the four rows of the truth table *)
C14_Witness ==
    /\ Evaluated /\ Enabled(config, Asked) /\ Sufficient
    /\ ~RsiHolds /\ DistanceHolds /\ Answer.signal = "NONE"
C14_WitnessLong ==
    /\ Evaluated /\ Enabled(config, Asked) /\ Sufficient
    /\ RsiHolds /\ DistanceHolds /\ Answer.signal = "LONG"
C14_WitnessDistance ==
    /\ Evaluated /\ Enabled(config, Asked) /\ Sufficient
    /\ RsiHolds /\ ~DistanceHolds /\ Answer.signal = "NONE"
C14_WitnessNeither ==
    /\ Evaluated /\ Enabled(config, Asked) /\ Sufficient
    /\ ~RsiHolds /\ ~DistanceHolds /\ Answer.signal = "NONE"
(* a LONG on the lower band of 0, under a distance threshold of 0 *)
C14_WitnessZeroBand ==
    /\ Evaluated /\ Enabled(config, Asked) /\ hist = ZeroBand
    /\ Answer.signal = "LONG"

(* C15: on every window shorter than max(rsi_period, bb_period) = 20, for  *)
(* any symbol and config, analyze_symbol returns NONE with the reason       *)
(* 'Insufficient data' and no snapshot (rsi, bands and price null); on a    *)
(* window of 20 or more candles it never returns that decision.             *)
C15_InsufficientData ==
    Evaluated =>
        /\ Len(hist) < 20 =>
              /\ Answer.signal = "NONE"
              /\ Answer.reason = <<"Insufficient data">>
              /\ Answer.rsi = None /\ Answer.bb = None /\ Answer.current_price = None
        /\ Len(hist) >= 20 =>
              /\ Answer.reason # <<"Insufficient data">>
              /\ Answer.rsi # None /\ Answer.bb # None /\ Answer.current_price # None

(* nineteen candles ending in a drop, refused for an enabled symbol *)
C15_Witness ==
    /\ Evaluated /\ Enabled(config, Asked)
    /\ Len(hist) = 19 /\ hist[19] < hist[18]
    /\ Answer.reason = <<"Insufficient data">> /\ Answer.current_price = None

(* what the live loop and the backtester do with the window for the symbol *)
(* asked about                                                               *)
MarketAnswers == analyze_market(config, [s \in Symbols |-> Some(hist)])
TradedStore(k) == execute_trade(config, NoStore, 1, MarketAnswers[k], "none").store
Backtested == run_backtest(config, Asked, hist)

(* C16: a symbol missing from the config or with enabled = false never      *)
(* gets a LONG decision, a position or a trade: analyze_symbol returns NONE *)
(* (with the snapshot attached when the window is sufficient),              *)
(* analyze_market does not analyse it, and run_backtest returns no trades   *)
(* for it.                                                                   *)
C16_DisabledNeverTrades ==
    (Evaluated /\ (Asked \notin DOMAIN config \/ ~config[Asked].enabled)) =>
        /\ Answer.signal = "NONE"
        /\ Sufficient =>
              /\ Answer.reason = <<"Symbol not configured or disabled">>
              /\ Answer.rsi = Some(RsiAt(hist, rsi_period, Len(hist)))
              /\ Answer.bb = Some(BandsAt(hist, bb_period, bb_std_dev, Len(hist)))
              /\ Answer.current_price = Some(hist[Len(hist)])
        /\ Asked \notin get_enabled_symbols(config)
        /\ \A k \in 1..Len(MarketAnswers) :
              /\ MarketAnswers[k].symbol # Asked
              /\ \A i \in DOMAIN TradedStore(k) : TradedStore(k)[i].symbol # Asked
        /\ Backtested.trades = <<>> /\ Backtested.position = None

(* a disabled symbol on a window that makes the enabled symbol go LONG *)
C16_Witness ==
    /\ Evaluated /\ Sufficient
    /\ Asked \in DOMAIN config /\ ~config[Asked].enabled
    /\ Answer.signal = "NONE" /\ Answer.rsi # None
    /\ \E k \in 1..Len(MarketAnswers) :
          MarketAnswers[k].signal = "LONG" /\ TradedStore(k) # NoStore

(* the same for a symbol the config does not hold *)
C16_WitnessMissing ==
    /\ Evaluated /\ Sufficient
    /\ Asked \notin DOMAIN config
    /\ Answer.signal = "NONE" /\ Answer.rsi # None
    /\ \E k \in 1..Len(MarketAnswers) : MarketAnswers[k].signal = "LONG"

RsiClause == IF RsiHolds THEN <<>> ELSE <<"RSI >= threshold">>
DistanceClause == IF DistanceHolds THEN <<>> ELSE <<"Price only below BB">>

(* C17: when analyze_symbol returns NONE for an enabled symbol with        *)
(* sufficient data, the reason names exactly the conditions that failed    *)
(* (the RSI clause iff rsi >= threshold, the distance clause iff distance  *)
(* < threshold), so at least one; when it returns LONG the reason names    *)
(* both as passed.  'No signal conditions met' is never produced.          *)
C17_ReasonNamesFailures ==
    (Evaluated /\ Enabled(config, Asked) /\ Sufficient) =>
        /\ Answer.signal = "NONE" =>
              /\ Answer.reason = RsiClause \o DistanceClause
              /\ Answer.reason # <<>>
        /\ Answer.signal = "LONG" =>
              Answer.reason = <<"RSI < threshold", "price below BB lower">>
        /\ Answer.reason # <<"No signal conditions met">>

(* a NONE that names the distance clause alone *)
C17_Witness ==
    /\ Evaluated /\ Enabled(config, Asked) /\ Sufficient
    /\ Answer.signal = "NONE"
    /\ Answer.reason = <<"Price only below BB">>

(* a NONE that names both clauses *)
C17_WitnessBoth ==
    /\ Evaluated /\ Enabled(config, Asked) /\ Sufficient
    /\ Answer.reason = <<"RSI >= threshold", "Price only below BB">>

-----------------------------------------------------------------------------
(* The backtester on drawn series: run_backtest called once for a symbol *)

RunBacktest ==
    /\ pc = "idle"
    /\ bt_out' = Some(run_backtest(config, Val(exit_in).symbol, hist))
    /\ pc' = "backtested"
    /\ UNCHANGED <<config, positions, positions_file, clock, pm_result, running, analysis_results,
                   open_positions, hist, live_events, calls, exit_in, exit_out>>

BacktestNext == RunBacktest

SpecBacktest == SignalInit /\ [][BacktestNext]_vars

IsPrefix(a, b) == Len(a) <= Len(b) /\ \A k \in 1..Len(a) : a[k] = b[k]

(* C18: run_backtest evaluates first at candle index 20 and at index i on   *)
(* the prefix candles[0..i] only: no trade is entered before index 20 (the  *)
(* 21st candle), every entry and exit is decided on the prefix ending at    *)
(* its bar, and the trades of any prefix of a series are a prefix of the    *)
(* trades of the whole series.                                              *)
C18_NoLookAhead ==
    pc = "backtested" =>
        LET trades == Val(bt_out).trades
        IN  /\ \A k \in 1..Len(trades) :
                  /\ trades[k].entry_time > first_bar
                  /\ trades[k].entry_price = hist[trades[k].entry_time]
                  /\ trades[k].exit_price = hist[trades[k].exit_time]
                  /\ analyze_symbol(config, Asked,
                                    SubSeq(hist, 1, trades[k].entry_time)).signal = "LONG"
            /\ \A m \in 0..Len(hist) :
                  IsPrefix(run_backtest(config, Asked, SubSeq(hist, 1, m)).trades, trades)
            (* the position left open at the last candle was entered the same way *)
            /\ Val(bt_out).position # None =>
                  LET open == Val(Val(bt_out).position)
                  IN  /\ open.entry_time > first_bar
                      /\ open.entry_price = hist[open.entry_time]
                      /\ analyze_symbol(config, Asked,
                                        SubSeq(hist, 1, open.entry_time)).signal = "LONG"

(* the first twenty candles already give a LONG, the trade is entered on    *)
(* the 21st and closed later; the series cut before the close has no trade  *)
C18_Witness ==
    /\ pc = "backtested"
    /\ Len(hist) > first_bar
    /\ analyze_symbol(config, Asked, SubSeq(hist, 1, first_bar)).signal = "LONG"
    /\ Val(bt_out).trades # <<>>
    /\ Val(bt_out).trades[1].entry_time = first_bar + 1
    /\ run_backtest(config, Asked, SubSeq(hist, 1, Len(hist) - 1)).trades = <<>>

(* C19: a position still open at the last candle is dropped: it yields no  *)
(* trade and is never force-closed.  Every trade of the returned list has   *)
(* exit_reason 'Take Profit' or 'Stop Loss', and its exit price is the      *)
(* close of its exit bar, which satisfied that condition.                   *)
C19_OpenAtEndDropped ==
    pc = "backtested" =>
        LET trades == Val(bt_out).trades
            open == Val(bt_out).position
            c == config[Asked]
        IN  /\ \A k \in 1..Len(trades) :
                  LET t == trades[k]
                  IN  /\ t.exit_reason \in ExitReasons
                      /\ t.exit_price = hist[t.exit_time]
                      /\ t.exit_reason = "Take Profit" <=>
                            AtOrAboveTakeProfit(t.exit_price, t.entry_price,
                                                c.take_profit_percent)
                      /\ t.exit_reason = "Stop Loss" =>
                            AtOrBelowStopLoss(t.exit_price, t.entry_price,
                                              c.stop_loss_percent)
            /\ open # None =>
                  /\ \A k \in 1..Len(trades) : trades[k].exit_time < Val(open).entry_time
                  /\ \A n \in (Val(open).entry_time + 1)..Len(hist) :
                        /\ ~AtOrAboveTakeProfit(hist[n], Val(open).entry_price,
                                                c.take_profit_percent)
                        /\ ~AtOrBelowStopLoss(hist[n], Val(open).entry_price,
                                              c.stop_loss_percent)

(* a position entered before the last candle and held to it, which gives   *)
(* no trade                                                                  *)
C19_Witness ==
    /\ pc = "backtested"
    /\ Val(bt_out).position # None
    /\ Val(Val(bt_out).position).entry_time < Len(hist)
    /\ \A k \in 1..Len(Val(bt_out).trades) :
          Val(bt_out).trades[k].entry_time # Val(Val(bt_out).position).entry_time

-----------------------------------------------------------------------------
(* The backtester on whole candles: two series with the same closes, one    *)
(* with plain bars and one with wicks above and below the close             *)

(* df['close'] *)
ClosePrices_low(candles) == [i \in 1..Len(candles) |-> candles[i].low]

ClosePrices(candles) == [i \in 1..Len(candles) |-> candles[i].close]

(* run_backtest(symbol, df) on a frame of open, high, low, close, volume:   *)
(* analyze_symbol reads df['close'], the exit test analysis['current_price'] *)
run_backtest_frame(cfg, symbol, candles) == run_backtest(cfg, symbol, ClosePrices(candles))

(* a bar's reach above and below its close: none, a wick up, a wick down *)
Wicks == {<<0, 0>>, <<2, 0>>, <<0, 2>>}
PlainCandle(c) == [open |-> c, high |-> c, low |-> c, close |-> c, volume |-> 1]
Plain(closes) == [i \in 1..Len(closes) |-> PlainCandle(closes[i])]
(* the bars after the warm-up get the wicks w and another open and volume *)
Wicked(closes, w) ==
    [i \in 1..Len(closes) |->
        IF i <= first_bar THEN PlainCandle(closes[i])
        ELSE [open |-> closes[i - 1], high |-> closes[i] + w[i - first_bar][1],
              low |-> closes[i] - w[i - first_bar][2], close |-> closes[i],
              volume |-> 2]]

CandleConfigs ==
    {[s \in {EquivSymbol} |-> [PairConfig(25, 25) EXCEPT !.rsi_long_threshold = th]] :
        th \in EquivThresholds}

CandleInit ==
    /\ config \in CandleConfigs
    /\ positions = NoStore /\ clock = 0
    /\ positions_file = WrittenFile(positions)
    /\ pm_result = NoCall
    /\ pc = "idle" /\ running = FALSE /\ analysis_results = <<>>
    /\ open_positions = {} /\ live_events = <<>> /\ calls = <<>>
    /\ hist \in {Flat(first_bar, WarmClose) \o t : t \in Tails}
    /\ bt_out = None
    /\ exit_in \in {Some([symbol |-> EquivSymbol, candles |-> Plain(hist),
                          other |-> Wicked(hist, w)]) :
                       w \in [1..(Len(hist) - first_bar) -> Wicks]}
    /\ exit_out = None

(* the backtest run on each of the two frames *)
RunBoth ==
    /\ pc = "idle"
    /\ bt_out' = Some(run_backtest_frame(config, Val(exit_in).symbol, Val(exit_in).candles))
    /\ exit_out' = Some(run_backtest_frame(config, Val(exit_in).symbol, Val(exit_in).other))
    /\ pc' = "backtested"
    /\ UNCHANGED <<config, positions, positions_file, clock, pm_result, running, analysis_results,
                   open_positions, hist, live_events, calls, exit_in>>

CandleNext == RunBoth

SpecCandles == CandleInit /\ [][CandleNext]_vars

(* bar n of the wicked frame touches a level of the position entered at     *)
(* price entry without closing beyond it                                    *)
TouchesOnly(n, entry) ==
    LET b == Val(exit_in).other[n]
        c == config[EquivSymbol]
    IN  /\ \/ AtOrBelowStopLoss(b.low, entry, c.stop_loss_percent)
           \/ AtOrAboveTakeProfit(b.high, entry, c.take_profit_percent)
        /\ ~AtOrBelowStopLoss(b.close, entry, c.stop_loss_percent)
        /\ ~AtOrAboveTakeProfit(b.close, entry, c.take_profit_percent)

(* C20: the backtest decides entries and exits from the close prices only: *)
(* two candle series with the same closes and different open, high, low    *)
(* and volume give the same trades, so a bar whose low crosses the stop     *)
(* loss (or whose high crosses the take profit) while its close does not    *)
(* never closes the position.                                               *)
C20_ClosesOnly ==
    pc = "backtested" =>
        /\ Val(exit_out).trades = Val(bt_out).trades
        /\ Val(exit_out).position = Val(bt_out).position
        /\ \A k \in 1..Len(Val(exit_out).trades) :
              LET t == Val(exit_out).trades[k]
              IN  /\ ~TouchesOnly(t.exit_time, t.entry_price)
                  /\ t.exit_price = Val(exit_in).other[t.exit_time].close

(* a position held through a bar whose low reached the stop loss while the *)
(* close stayed above it                                                    *)
C20_Witness ==
    /\ pc = "backtested"
    /\ Val(exit_out).position # None
    /\ LET open == Val(Val(exit_out).position)
       IN  \E n \in (open.entry_time + 1)..Len(hist) :
              /\ TouchesOnly(n, open.entry_price)
              /\ AtOrBelowStopLoss(Val(exit_in).other[n].low, open.entry_price,
                                   config[EquivSymbol].stop_loss_percent)

-----------------------------------------------------------------------------
(* Claims about the backtester on flat series, under SpecBacktest *)

AllEqual(df) == \A i, j \in 1..Len(df) : df[i] = df[j]

(* C21: a backtest run over an all-flat close series (every close equal,    *)
(* any length) for an enabled symbol with a valid config never opens a      *)
(* position: the returned trade list is empty, no position is left open    *)
(* and no open event was recorded.                                          *)
C21_FlatNeverOpens ==
    (/\ pc = "backtested" /\ AllEqual(hist)
     /\ Enabled(config, Asked) /\ validate_symbol_config(config, Asked))
    => /\ Val(bt_out).trades = <<>>
       /\ Val(bt_out).position = None
       /\ Val(bt_out).events = <<>>

(* a flat series long enough for the loop to analyse bars, whose RSI is 0   *)
(* and below the threshold at every bar, replayed under a valid config      *)
C21_Witness ==
    /\ pc = "backtested" /\ AllEqual(hist) /\ Len(hist) > first_bar + 1
    /\ Enabled(config, Asked) /\ validate_symbol_config(config, Asked)
    /\ RsiLess(RsiAt(hist, rsi_period, Len(hist)), config[Asked].rsi_long_threshold)
    /\ Val(bt_out).trades = <<>>

-----------------------------------------------------------------------------
(* Claims about failures in the trading loop, under SpecLive *)

Made(cs, call) == \E k \in 1..Len(cs) : cs[k] = call
SameElsewhere(sym) ==
    \A i \in DOMAIN positions :
        positions[i].symbol # sym => i \in DOMAIN positions' /\ positions'[i] = positions[i]

(* analyze_market returned one entry per enabled symbol, in order: the      *)
(* symbol's analysis of the candles it got, or its ERROR entry              *)
AnalysedAll(results) ==
    LET symbols == EnabledInOrder(config)
    IN  /\ Len(results) = Len(symbols)
        /\ \A k \in 1..Len(symbols) :
              \/ results[k] = AnalysisError(symbols[k])
              \/ \E w \in LiveWindows : results[k] = analyze_symbol(config, symbols[k], w)

(* a turn of the trade loop handles the first analysis only *)
TradeTurn ==
    LET analysis == Head(analysis_results)
    IN  /\ analysis_results' = Tail(analysis_results)
        /\ SameElsewhere(analysis.symbol)
        /\ (/\ analysis.signal = "LONG"
            /\ ~has_open_position(positions, analysis.symbol)
            /\ ~Made(calls', "notify_error"))
           => has_open_position(positions', analysis.symbol)

(* a turn of the monitor loop handles the first position of the snapshot only *)
MonitorTurn ==
    LET id == FirstOf(open_positions)
    IN  /\ open_positions' = open_positions \ {id}
        /\ SameElsewhere(positions[id].symbol)
        /\ Made(calls', "get_current_price")

(* C22: within one live cycle a failure for one symbol (candle fetch,       *)
(* analysis, leverage, order placement, price fetch or close order raising) *)
(* is confined to that symbol: every enabled symbol has its entry in the    *)
(* analysis results, each turn of the trade loop, failed or not, leaves the *)
(* other analyses to be traded and the other symbols' positions as they     *)
(* were, a LONG whose calls did not fail is opened, the monitor's snapshot  *)
(* holds every open position, and each turn of the monitor loop, failed or  *)
(* not, leaves the other positions to be checked.                           *)
C22_FailureIsolated ==
    [][/\ (pc = "analyze" /\ pc' = "trade") => AnalysedAll(analysis_results')
       /\ (pc = "trade" /\ pc' = "trade" /\ analysis_results' # analysis_results)
              => TradeTurn
       /\ (pc = "trade" /\ pc' = "monitor")
              => open_positions' = get_open_positions(positions)
       /\ (pc = "monitor" /\ pc' = "monitor" /\ open_positions' # open_positions)
              => MonitorTurn]_vars

(* the order for the first symbol has just failed, and the second symbol's *)
(* LONG analysis is still to be traded in this cycle                        *)
C22_Witness ==
    /\ pc = "trade" /\ Made(calls, "place_market_order") /\ Made(calls, "notify_error")
    /\ ~Made(calls, "notify_position_opened")
    /\ analysis_results # <<>> /\ Head(analysis_results).signal = "LONG"
    /\ ~has_open_position(positions, Head(analysis_results).symbol)

(* the price fetch for one open position has just failed, and another open *)
(* position is still to be checked in this cycle                            *)
C22_WitnessMonitor ==
    /\ pc = "monitor" /\ calls = <<"get_current_price", "logger.error">>
    /\ open_positions # {}

OrderFailures == {"set_leverage", "place_market_order"}
OrderFailed(cs) == Made(cs, "notify_error") /\ ~Made(cs, "notify_position_opened")

(* C23: if set_leverage or place_market_order fails during execute_trade,  *)
(* the attempt is a failed trade and nothing more: execute_trade returns    *)
(* False, no position is registered and the store is unchanged, and the     *)
(* trading loop, still running, continues with the next analysis; the loop  *)
(* is left only by the running flag or a KeyboardInterrupt.                 *)
C23_FailedTradeOnly ==
    /\ [](pc = "trade" /\ analysis_results # <<>> =>
             \A raises \in OrderFailures :
                 LET r == execute_trade(config, positions, clock,
                                        Head(analysis_results), raises)
                 IN  ~r.done /\ r.store = positions /\ r.events = <<>>)
    /\ [][(pc = "trade" /\ analysis_results # <<>> /\ OrderFailed(calls')
              /\ analysis_results' # analysis_results)
          => /\ positions' = positions /\ live_events' = live_events
             /\ analysis_results' = Tail(analysis_results)
             /\ pc' = "trade" /\ running' = running]_vars
    /\ [][pc' = "stopped" /\ pc # "stopped" => ExitLoop \/ KeyboardInterrupt]_vars

(* set_leverage has just raised for a LONG decision in a running loop: the *)
(* store holds no open position for the symbol                              *)
C23_Witness ==
    /\ pc = "trade" /\ running
    /\ calls = <<"set_leverage", "notify_error">>
    /\ get_open_positions(positions) = {}

(* C24: a notifier failure (the position-opened, position-closed or error  *)
(* notification failing or raising) never changes trading state: the store  *)
(* and the events after the operation are those of the operation with a     *)
(* notification that succeeded, and the turn in which the notification      *)
(* raised leaves the other analyses and positions to be handled.            *)
C24_NotifierHasNoEffect ==
    /\ [](pc = "trade" /\ analysis_results # <<>> =>
             LET failed == execute_trade(config, positions, clock,
                                         Head(analysis_results), "notify_position_opened")
                 sent == execute_trade(config, positions, clock,
                                       Head(analysis_results), "none")
             IN  failed.store = sent.store /\ failed.events = sent.events)
    /\ [](pc = "monitor" /\ open_positions # {} =>
             \A price \in Closes :
                 LET id == FirstOf(open_positions)
                     failed == monitor_position(config, positions, clock, id, price,
                                                "notify_position_closed")
                     sent == monitor_position(config, positions, clock, id, price, "none")
                 IN  failed.store = sent.store /\ failed.events = sent.events)
    /\ [][/\ (pc = "trade" /\ Made(calls', "notify_position_opened")
                 /\ analysis_results' # analysis_results)
             => analysis_results' = Tail(analysis_results) /\ pc' = "trade"
          /\ (pc = "monitor" /\ Made(calls', "notify_position_closed")
                 /\ open_positions' # open_positions)
             => /\ open_positions' = open_positions \ {FirstOf(open_positions)}
                /\ pc' = "monitor"]_vars

(* the position-opened notification has raised: the position is in the     *)
(* store, open, and the next symbol's analysis is still to be traded       *)
C24_Witness ==
    /\ pc = "trade"
    /\ Made(calls, "notify_position_opened") /\ Made(calls, "notify_error")
    /\ get_open_positions(positions) # {}
    /\ analysis_results # <<>>

(* the position-closed notification has raised: the position is closed in  *)
(* the store and another position is still to be checked                    *)
C24_WitnessClosed ==
    /\ pc = "monitor"
    /\ Made(calls, "notify_position_closed") /\ Made(calls, "logger.error")
    /\ \E i \in DOMAIN positions : positions[i].status = "CLOSED"
    /\ open_positions # {}

-----------------------------------------------------------------------------
(* Claims about the loop as a whole, under SpecLiveFair *)

InLoop == pc \in {"analyze", "trade", "monitor"}
BackedOff == Made(calls, "time.sleep(30)")

(* C25: no exception raised inside a trading cycle terminates the live     *)
(* loop.  The loop is left only when the running flag has been cleared or   *)
(* by a KeyboardInterrupt; a sleep of 60 seconds follows a cycle that ran   *)
(* to its end and any other wait is the 30 second back-off, after which     *)
(* the loop stands at its test with the flag and the store as they were;    *)
(* and from there, while the flag is set, another cycle's analysis starts.  *)
C25_LoopSurvivesErrors ==
    /\ [][InLoop /\ ~InLoop' => (ExitLoop /\ ~running) \/ KeyboardInterrupt]_vars
    /\ [][clock' # clock =>
             \/ /\ pc = "monitor" /\ open_positions = {}
                /\ calls' = <<"time.sleep(60)">> /\ pc' = "analyze"
             \/ /\ BackedOff' /\ pc' = "analyze"
                /\ running' = running /\ positions' = positions]_vars
    /\ (BackedOff /\ pc = "analyze") ~> (pc = "trade" \/ pc = "stopped")

(* a cycle failed after it had opened a position: the loop has backed off  *)
(* and stands at its test, still running                                    *)
C25_Witness ==
    /\ BackedOff /\ pc = "analyze" /\ running
    /\ \E i \in get_open_positions(positions) : positions[i].entry_time = clock - 1

(* C26: a shutdown signal (SIGINT/SIGTERM) arriving at any point of a      *)
(* cycle changes the flag only, and after it                                *)
(* the cycle goes on: each remaining turn of the trade and monitor   *)
(* loops handles its item as in C22, every record of the store is whole,    *)
(* no analysis of a new cycle starts and the flag stays cleared, the loop   *)
(* is left by the flag only at its test, and it is left.                    *)
C26_GracefulShutdown ==
    /\ [][running /\ ~running' => pc' = pc /\ positions' = positions]_vars
    /\ [][~running /\ pc # "start" =>
             /\ ~running'
             /\ ~(pc = "analyze" /\ pc' = "trade")
             /\ (InLoop /\ ~InLoop') => (pc = "analyze" \/ KeyboardInterrupt)
             /\ (pc = "trade" /\ pc' = "trade" /\ analysis_results' # analysis_results)
                   => TradeTurn
             /\ (pc = "monitor" /\ pc' = "monitor" /\ open_positions' # open_positions)
                   => MonitorTurn]_vars
    /\ [](\A i \in DOMAIN positions : WellFormed(positions[i]))
    /\ (~running /\ InLoop) ~> (pc = "stopped")

(* the signal has just arrived in the middle of the trade loop, with a     *)
(* LONG decision still to be executed                                       *)
C26_Witness ==
    /\ ~running /\ calls = <<"logger.info">> /\ pc = "trade"
    /\ analysis_results # <<>> /\ Head(analysis_results).signal = "LONG"
    /\ ~has_open_position(positions, Head(analysis_results).symbol)

(* the loop has stopped after the signal, with a position opened in its    *)
(* last cycle                                                                *)
C26_WitnessStopped ==
    /\ ~running /\ pc = "stopped"
    /\ \E i \in get_open_positions(positions) : positions[i].entry_time = clock - 1

-----------------------------------------------------------------------------
(* The trading loop across restarts: the process ends at any point, by the  *)
(* loop stopping or by being killed, and is started again; each write and   *)
(* each read of the positions file goes through or fails                    *)

(* TradingBot.__init__: PositionManager() calls load_positions() *)
Restart(read) ==
    /\ pc # "start"
    /\ clock < MaxClock
    /\ clock' = clock + 1
    /\ positions' = load_positions(positions_file, read)
    /\ pc' = "start" /\ running' = FALSE
    /\ analysis_results' = <<>> /\ open_positions' = {} /\ calls' = <<>>
    /\ UNCHANGED <<config, positions_file, pm_result, hist, live_events,
                   bt_out, exit_in, exit_out>>

RestartNext ==
    \/ \E account_ok \in BOOLEAN : Start(account_ok)
    \/ \E dfs \in [Symbols -> {None} \cup {Some(w) : w \in LiveWindows}] :
          AnalyzeMarket(dfs)
    \/ \E raises \in TradeFailures, write \in WriteOutcomes : ExecuteTrade(raises, write)
    \/ BeginMonitor
    \/ \E price \in Closes, raises \in MonitorFailures, write \in WriteOutcomes :
          MonitorPosition(price, raises, write)
    \/ EndCycle
    \/ ExitLoop
    \/ SignalHandler
    \/ \E read \in ReadOutcomes : Restart(read)

SpecRestart == FairInit /\ [][RestartNext]_vars

(* C27: the position store is durable across restarts: after any sequence  *)
(* of openings and closings followed by a restart, with the writes and the  *)
(* read of the positions file going through or failing, the reloaded table  *)
(* equals the table before the restart, and a symbol with an OPEN position  *)
(* before the restart has one afterwards.                                   *)
C27_DurableAcrossRestarts ==
    [][(pc # "start" /\ pc' = "start") =>
          /\ positions' = positions
          /\ \A sym \in Symbols :
                has_open_position(positions, sym) => has_open_position(positions', sym)]_vars

(* when the last write went through, the reloaded table is the table      *)
(* before the restart or, the read having failed, the empty one            *)
C27_DurableWhenTheFileWorks ==
    [][(pc # "start" /\ pc' = "start" /\ positions_file = WrittenFile(positions))
       => positions' \in {positions, NoStore}]_vars

(* the live driver never opens a position for a symbol whose last opening  *)
(* at the exchange has not been closed                                      *)
C27_NoSecondOpening ==
    \A k \in 2..Len(live_events) :
        ~(/\ live_events[k].kind = "open" /\ live_events[k - 1].kind = "open"
          /\ live_events[k].symbol = live_events[k - 1].symbol)

-----------------------------------------------------------------------------
(* The bot started under any configuration: valid ones, and ones that miss  *)
(* a field, hold a text, a zero or a negative number, or pass a ceiling     *)

Without(symbol_config, field) ==
    [f \in DOMAIN symbol_config \ {field} |-> symbol_config[f]]

StartupPairs ==
    LET c == PairConfig(25, 25)
    IN  [valid |-> {c, [c EXCEPT !.leverage = 125], [c EXCEPT !.rsi_long_threshold = 99]},
         invalid |-> {Without(c, "stop_loss_percent"), Without(c, "leverage"),
                      [c EXCEPT !.non_numeric = {"trade_volume"}],
                      [c EXCEPT !.take_profit_percent = 0],
                      [c EXCEPT !.shadow_distance_threshold = 0 - 1],
                      [c EXCEPT !.leverage = 126],
                      [c EXCEPT !.rsi_long_threshold = 100]}]

(* BTCUSDT enabled with any of the settings and ETHUSDT disabled, with      *)
(* valid settings or not; or no symbol enabled                              *)
StartupConfigs ==
    {[s \in Symbols |-> IF s = "BTCUSDT" THEN c ELSE [d EXCEPT !.enabled = FALSE]] :
        c \in StartupPairs.valid \cup StartupPairs.invalid,
        d \in {PairConfig(25, 25), [PairConfig(25, 25) EXCEPT !.leverage = 126]}}
    \cup {[s \in Symbols |-> [PairConfig(25, 25) EXCEPT !.enabled = FALSE]]}

StartupInit ==
    /\ config \in StartupConfigs
    /\ positions = NoStore
    /\ positions_file = WrittenFile(positions)
    /\ clock = 1
    /\ pm_result = NoCall
    /\ pc = "start" /\ running = FALSE /\ analysis_results = <<>>
    /\ open_positions = {} /\ hist = <<>> /\ live_events = <<>> /\ calls = <<>>
    /\ bt_out = None
    /\ IdleExit

SpecStartup == StartupInit /\ [][LiveNext]_vars

(* the settings of a pair that the claim calls invalid *)
InvalidPair(c) ==
    \/ \E k \in 1..Len(required_fields) :
          \/ required_fields[k] \notin DOMAIN c
          \/ required_fields[k] \in c.non_numeric
          \/ c[required_fields[k]] <= 0
    \/ c.leverage > 125
    \/ c.rsi_long_threshold >= 100
InvalidConfiguration ==
    \/ \A s \in DOMAIN config : ~config[s].enabled
    \/ \E s \in DOMAIN config : config[s].enabled /\ InvalidPair(config[s])

C28_WitnessNoneEnabled ==
    pc = "failed" /\ \A s \in DOMAIN config : ~config[s].enabled

(* the loop runs under settings at the two ceilings *)
C28_WitnessAtTheCeilings ==
    /\ pc = "trade"
    /\ \E s \in DOMAIN config :
          config[s].enabled /\ (config[s].leverage = 125 \/ config[s].rsi_long_threshold = 99)

-----------------------------------------------------------------------------
(* The backtester's batch and its metrics: run_full_backtest over the       *)
(* enabled symbols, and calculate_symbol_metrics on a list of trades        *)

(* sum(values) over a list of ratios *)
RECURSIVE RatSum(_)
RatSum(values) ==
    IF values = <<>> THEN Rat(0, 1)
    ELSE LET rest == RatSum(Tail(values))
             v == Head(values)
         IN  Rat(v.n * rest.d + rest.n * v.d, v.d * rest.d)

(* the aggregator counting the trades that did not lose as winners *)
calculate_symbol_metrics_not_losing(trades) ==
    LET winning_pnl == SelectSeq(trades, LAMBDA t : RatSign(t.pnl_usdt) >= 0)
        losing_pnl == SelectSeq(trades, LAMBDA t : RatSign(t.pnl_usdt) < 0)
        sw == RatSum([k \in 1..Len(winning_pnl) |-> winning_pnl[k].pnl_usdt])
        sl == RatSum([k \in 1..Len(losing_pnl) |-> losing_pnl[k].pnl_usdt])
    IN  IF trades = <<>> THEN <<>>
        ELSE [total_trades |-> Len(trades),
              winning_trades |-> Len(winning_pnl),
              losing_trades |-> Len(losing_pnl),
              win_rate |-> Rat(Len(winning_pnl) * 100, Len(trades)),
              total_pnl |-> Rat(sw.n * sl.d + sl.n * sw.d, sw.d * sl.d),
              profit_factor |-> IF losing_pnl # <<>>
                                THEN Rat(sw.n * sl.d, (0 - sl.n) * sw.d)
                                ELSE Rat(1, 0)]

(* calculate_symbol_metrics(trades): {} for no trades; float('inf') is the  *)
(* ratio 1/0.  Winners and losers are counted on pnl_percent, the sums are  *)
(* taken on pnl_usdt.                                                        *)
calculate_symbol_metrics(trades) ==
    LET PnlOf(ts) == [k \in 1..Len(ts) |-> ts[k].pnl_usdt]
        total_trades == Len(trades)
        winning_trades == Len(SelectSeq(trades, LAMBDA t : RatSign(t.pnl_percent) > 0))
        losing_trades == Len(SelectSeq(trades, LAMBDA t : RatSign(t.pnl_percent) < 0))
        total_pnl == RatSum(PnlOf(trades))
        winning_pnl == PnlOf(SelectSeq(trades, LAMBDA t : RatSign(t.pnl_usdt) > 0))
        losing_pnl == PnlOf(SelectSeq(trades, LAMBDA t : RatSign(t.pnl_usdt) < 0))
        sw == RatSum(winning_pnl)
        sl == RatSum(losing_pnl)
        Mean(sum, n) == IF n > 0 THEN Rat(sum.n, sum.d * n) ELSE Rat(0, 1)
        Abs(x) == IF x < 0 THEN 0 - x ELSE x
    IN  IF trades = <<>> THEN <<>>
        ELSE [total_trades |-> total_trades,
              winning_trades |-> winning_trades,
              losing_trades |-> losing_trades,
              win_rate |-> Rat(winning_trades * 100, total_trades),
              total_pnl |-> total_pnl,
              avg_pnl |-> Mean(total_pnl, total_trades),
              avg_win |-> Mean(sw, Len(winning_pnl)),
              avg_loss |-> Mean(sl, Len(losing_pnl)),
              profit_factor |-> IF losing_pnl # <<>>
                                THEN Rat(Abs(sw.n * sl.d), Abs(sl.n * sw.d))
                                ELSE Rat(1, 0),
              avg_duration_minutes |->
                  Mean(Rat(SumTo([k \in 1..total_trades |-> trades[k].duration],
                                 1, total_trades), 1), total_trades)]

(* the batch given up at the first symbol that fails *)
run_full_backtest_aborting(cfg, data, raises) ==
    LET enabled_symbols == EnabledInOrder(cfg)
        Turn(before, symbol, trades) ==
            [all_trades |-> before.all_trades \o trades,
             symbol_results |->
                 before.symbol_results @@
                     (symbol :> [trades |-> trades,
                                 metrics |-> calculate_symbol_metrics(trades)]),
             failed |-> FALSE]
        RECURSIVE done(_)
        done(k) ==
            IF k = 0 THEN [all_trades |-> <<>>, symbol_results |-> <<>>, failed |-> FALSE]
            ELSE CHOOSE after \in
                     {IF before.failed \/ raises[symbol] # "none"
                      THEN [before EXCEPT !.failed = TRUE]
                      ELSE CHOOSE turn \in
                               {Turn(before, symbol, trades) :
                                   trades \in {run_backtest(cfg, symbol, data[symbol]).trades}} :
                               TRUE :
                         before \in {done(k - 1)}, symbol \in {enabled_symbols[k]}} : TRUE
    IN  IF enabled_symbols = <<>> THEN <<>>
        ELSE CHOOSE results \in
                 {[overall_metrics |-> calculate_symbol_metrics(all.all_trades),
                   symbol_results |-> all.symbol_results,
                   all_trades |-> all.all_trades] :
                     all \in {done(Len(enabled_symbols))}} : TRUE

(* run_full_backtest(): data[symbol] is what load_historical_data returns   *)
(* for the symbol and raises[symbol] the call that raises while the symbol  *)
(* is handled, if any.  done(k) is all_trades and symbol_results after k    *)
(* symbols, Turn what a symbol that completes adds to them; each value is   *)
(* bound once (CHOOSE from a singleton) before it is used.                  *)
(* overall_metrics leaves out what calculate_overall_metrics adds to the    *)
(* aggregate (symbols_traded, sharpe_ratio, total_trading_days).            *)
run_full_backtest(cfg, data, raises) ==
    LET enabled_symbols == EnabledInOrder(cfg)
        Turn(before, symbol, trades) ==
            [all_trades |-> before.all_trades \o trades,
             symbol_results |->
                 before.symbol_results @@
                     (symbol :> [trades |-> trades,
                                 metrics |-> calculate_symbol_metrics(trades)])]
        RECURSIVE done(_)
        done(k) ==
            IF k = 0 THEN [all_trades |-> <<>>, symbol_results |-> <<>>]
            ELSE CHOOSE after \in
                     {IF raises[symbol] \in {"load_historical_data", "run_backtest"}
                      THEN before
                      ELSE IF data[symbol] = <<>> THEN before
                      ELSE CHOOSE turn \in
                               {Turn(before, symbol, trades) :
                                   trades \in {run_backtest(cfg, symbol, data[symbol]).trades}} :
                               TRUE :
                         before \in {done(k - 1)}, symbol \in {enabled_symbols[k]}} : TRUE
    IN  IF enabled_symbols = <<>> THEN <<>>
        ELSE CHOOSE results \in
                 {[overall_metrics |-> calculate_symbol_metrics(all.all_trades),
                   symbol_results |-> all.symbol_results,
                   all_trades |-> all.all_trades] :
                     all \in {done(Len(enabled_symbols))}} : TRUE

(* The inputs of one call.  For the batch: BTCUSDT's history is the warm-up *)
(* followed by any MaxTail closes, ETHUSDT's is one that trades or a flat   *)
(* one, and each symbol's turn raises in load_historical_data, in           *)
(* run_backtest or not at all.  For the metrics: trades with a PnL of -5,   *)
(* 0, 10 or 15 USDT, as run_backtest records them under the default         *)
(* trade_volume (pnl_percent = pnl_usdt * 100 / trade_volume).              *)
BatchInit ==
    LET Warm == Flat(bb_period, WarmClose)
        Raises == {"none", "load_historical_data", "run_backtest"}
        BatchData == {[s \in Symbols |-> IF s = "BTCUSDT" THEN Warm \o tail ELSE eth] :
                        tail \in [1..MaxTail -> Closes],
                        eth \in {Warm \o <<WarmClose - 2, WarmClose>>, Warm \o <<WarmClose>>}}
        TradeOf(pnl) == [pnl_percent |-> Rat(pnl * 100, default_trade_volume),
                         pnl_usdt |-> Rat(pnl, 1), duration |-> 1]
        TradeLists == UNION {[1..n -> {TradeOf(pnl) : pnl \in {0 - 5, 0, 10, 15}}] :
                                n \in 1..MaxTrades}
        Example == <<TradeOf(10), TradeOf(0 - 5), TradeOf(15)>>
    IN  /\ config \in {BothOn, EthOff, NoConfig}
        /\ positions = NoStore /\ clock = 0
        /\ positions_file = WrittenFile(positions)
        /\ pm_result = NoCall
        /\ IdleLoop
        /\ exit_in \in {Some([data |-> d, raises |-> r, trades |-> Example]) :
                            d \in BatchData, r \in [Symbols -> Raises]}
                       \cup {Some([data |-> [s \in Symbols |-> Warm],
                                   raises |-> [s \in Symbols |-> "none"],
                                   trades |-> t]) : t \in TradeLists}
        /\ exit_out = None

(* results = backtester.run_full_backtest() *)
RunFullBacktest ==
    /\ pc = "idle"
    /\ bt_out' = Some(run_full_backtest(config, Val(exit_in).data, Val(exit_in).raises))
    /\ pc' = "backtested"
    /\ UNCHANGED <<config, positions, positions_file, clock, pm_result, running, analysis_results,
                   open_positions, hist, live_events, calls, exit_in, exit_out>>

(* metrics = backtester.calculate_symbol_metrics(trades) *)
CalculateSymbolMetrics ==
    /\ pc = "idle"
    /\ exit_out' = Some(calculate_symbol_metrics(Val(exit_in).trades))
    /\ pc' = "measured"
    /\ UNCHANGED <<config, positions, positions_file, clock, pm_result, running, analysis_results,
                   open_positions, hist, live_events, calls, bt_out, exit_in>>

SpecBatch == BatchInit /\ [][RunFullBacktest \/ CalculateSymbolMetrics]_vars

(* the enabled symbols whose turn raised nothing, and what the replay of    *)
(* one symbol's history yields                                              *)
Completed == {s \in get_enabled_symbols(config) : Val(exit_in).raises[s] = "none"}
TradesOf(s) == run_backtest(config, s, Val(exit_in).data[s]).trades
TradesIfCompleted(s) == IF s \in Completed THEN TradesOf(s) ELSE <<>>

(* C29: in run_full_backtest an error while one symbol is loaded or         *)
(* replayed skips that symbol only: whenever a symbol is enabled the batch  *)
(* returns its results, symbol_results holds exactly the enabled symbols    *)
(* whose turn raised nothing, each with the trades of its replay and the    *)
(* metrics of those trades, and all_trades is the concatenation of the      *)
(* trades of those symbols in the order of the batch.                       *)
C29_SkipAndContinue ==
    (pc = "backtested" /\ get_enabled_symbols(config) # {}) =>
        LET results == Val(bt_out)
        IN  /\ DOMAIN results = {"overall_metrics", "symbol_results", "all_trades"}
            /\ DOMAIN results.symbol_results = Completed
            /\ \A s \in Completed :
                  /\ results.symbol_results[s].trades = TradesOf(s)
                  /\ results.symbol_results[s].metrics = calculate_symbol_metrics(TradesOf(s))
            /\ results.all_trades =
                  TradesIfCompleted(SymbolOrder[1]) \o TradesIfCompleted(SymbolOrder[2])

(* the first symbol's turn raised and the second symbol's trade is in the   *)
(* results                                                                  *)
C29_Witness ==
    /\ pc = "backtested" /\ get_enabled_symbols(config) = Symbols
    /\ Val(exit_in).raises[SymbolOrder[1]] # "none"
    /\ Completed = {SymbolOrder[2]}
    /\ Val(bt_out).all_trades # <<>>
    /\ Val(bt_out).symbol_results[SymbolOrder[2]].metrics.total_trades = 1

(* the second symbol's turn raised after the first symbol traded *)
C29_WitnessSecond ==
    /\ pc = "backtested" /\ Completed = {SymbolOrder[1]}
    /\ Val(exit_in).raises[SymbolOrder[2]] = "run_backtest"
    /\ Val(bt_out).all_trades = TradesOf(SymbolOrder[1]) /\ Val(bt_out).all_trades # <<>>

(* both symbols completed and both traded *)
C29_WitnessBoth ==
    /\ pc = "backtested" /\ Completed = Symbols
    /\ TradesOf(SymbolOrder[1]) # <<>> /\ TradesOf(SymbolOrder[2]) # <<>>
    /\ Len(Val(bt_out).all_trades) = 2

(* the PnL of the measured trades, in whole USDT, and the metrics returned *)
Measured == pc = "measured"
PnlAt(k) == Val(exit_in).trades[k].pnl_usdt.n
PnlWhere(Test(_)) ==
    LET n == Len(Val(exit_in).trades)
    IN  SumTo([k \in 1..n |-> IF Test(PnlAt(k)) THEN PnlAt(k) ELSE 0], 1, n)
Metrics == Val(exit_out)

(* C30: for a non-empty list of trades calculate_symbol_metrics returns     *)
(* win_rate = 100 * (trades with a positive PnL) / (trades), total_pnl =    *)
(* the sum of the PnL and, where a trade lost, profit_factor = (sum of the  *)
(* positive PnL) / |sum of the negative PnL| (infinite where none lost);    *)
(* for the PnL 10, -5, 15 that is 66.67 % to two decimals, 20 and 5.        *)
C30_Metrics ==
    Measured =>
        LET n == Len(Val(exit_in).trades)
            wins == Cardinality({k \in 1..n : PnlAt(k) > 0})
            gained == PnlWhere(LAMBDA p : p > 0)
            lost == PnlWhere(LAMBDA p : p < 0)
        IN  /\ RatEq(Metrics.win_rate, Rat(100 * wins, n))
            /\ RatEq(Metrics.total_pnl, Rat(PnlWhere(LAMBDA p : TRUE), 1))
            /\ lost < 0 => /\ Metrics.profit_factor.d # 0
                           /\ RatEq(Metrics.profit_factor, Rat(gained, 0 - lost))
            /\ lost = 0 => Metrics.profit_factor.d = 0
            /\ (n = 3 /\ PnlAt(1) = 10 /\ PnlAt(2) = 0 - 5 /\ PnlAt(3) = 15) =>
                  LET w == Metrics.win_rate
                      off == 200 * w.n - 13334 * w.d
                  IN  /\ w.d > 0 /\ off <= w.d /\ 0 - off <= w.d
                      /\ RatEq(Metrics.total_pnl, Rat(20, 1))
                      /\ RatEq(Metrics.profit_factor, Rat(5, 1))

(* the example: the PnL 10, -5, 15 measured *)
C30_Witness ==
    /\ Measured /\ Len(Val(exit_in).trades) = 3
    /\ PnlAt(1) = 10 /\ PnlAt(2) = 0 - 5 /\ PnlAt(3) = 15
    /\ Metrics.winning_trades = 2 /\ Metrics.losing_trades = 1

(* a list with a trade that neither won nor lost *)
C30_WitnessBreakEven ==
    /\ Measured /\ \E k \in 1..Len(Val(exit_in).trades) : PnlAt(k) = 0
    /\ Metrics.winning_trades + Metrics.losing_trades < Metrics.total_trades

(* a list with no losing trade: the profit factor is infinite *)
C30_WitnessNoLoss ==
    /\ Measured /\ \A k \in 1..Len(Val(exit_in).trades) : PnlAt(k) > 0
    /\ Metrics.profit_factor.d = 0

-----------------------------------------------------------------------------
(* The indicators on drawn series: calculate_rsi under a drawn period, and  *)
(* analyze_symbol on windows of 21 closes and more that differ in what      *)
(* comes before their last 21 closes                                        *)

(* hist is a short series of any closes, or a long window: up to one close, *)
(* then two closes, sixteen flat ones and MaxTail closes                    *)
IndicatorInit ==
    LET ShortSeries == UNION {[1..n -> Closes] : n \in 0..(MaxTail + 1)}
        LongWindows == {head \o lead \o Flat(bb_period - 4, WarmClose) \o tail :
                           head \in UNION {[1..n -> Closes] : n \in 0..1},
                           lead \in [1..2 -> Closes],
                           tail \in [1..MaxTail -> Closes]}
    IN  /\ config \in {[s \in Symbols |-> c] : c \in SignalPairs}
        /\ positions = NoStore /\ clock = 0
        /\ positions_file = WrittenFile(positions)
        /\ pm_result = NoCall
        /\ pc = "idle" /\ running = FALSE /\ analysis_results = <<>>
        /\ open_positions = {} /\ live_events = <<>> /\ calls = <<>>
        /\ hist \in ShortSeries \cup LongWindows
        /\ bt_out = None
        /\ exit_in \in {Some([symbol |-> "BTCUSDT", period |-> p]) : p \in {1, rsi_period}}
        /\ exit_out = None

(* rsi = TechnicalIndicators.calculate_rsi(prices, period) *)
ComputeRsi ==
    /\ pc = "idle"
    /\ bt_out' = Some(calculate_rsi(hist, Val(exit_in).period))
    /\ pc' = "computed"
    /\ UNCHANGED <<config, positions, positions_file, clock, pm_result, running, analysis_results,
                   open_positions, hist, live_events, calls, exit_in, exit_out>>

SpecIndicators == IndicatorInit /\ [][ComputeRsi \/ Evaluate]_vars

Computed == pc = "computed"
RsiSeries == Val(bt_out)

(* C31: calculate_rsi returns a series as long as its input whose every     *)
(* value lies in [0, 100], for every close series and every period >= 1:    *)
(* a value 100 g / (g + l + n * 1e-10) with n >= 1 samples, summed gains    *)
(* g >= 0 and summed losses l >= 0.                                         *)
C31_RsiInRange ==
    Computed =>
        /\ DOMAIN RsiSeries = 1..Len(hist)
        /\ \A i \in 1..Len(hist) :
              /\ RsiSeries[i].n >= 1 /\ RsiSeries[i].g >= 0 /\ RsiSeries[i].l >= 0
              /\ ~RsiLess(RsiSeries[i], 0) /\ RsiLess(RsiSeries[i], 100)

(* a series that rises and falls, measured over a period longer than one bar *)
C31_Witness ==
    /\ Computed /\ Val(exit_in).period > 1 /\ Len(hist) > 2
    /\ \E i \in 1..Len(hist) : RsiSeries[i].g > 0 /\ RsiSeries[i].l > 0

(* period 1: each value is 0 or just under 100 *)
C31_WitnessPeriodOne ==
    /\ Computed /\ Val(exit_in).period = 1
    /\ \E i \in 1..Len(hist) : RsiSeries[i].g > 0 /\ RsiSeries[i].l = 0
    /\ \E i \in 1..Len(hist) : RsiSeries[i].g = 0 /\ RsiSeries[i].l > 0

(* an RSI value within one point above t: t <= rsi < t + 1 *)
RsiNear(rsi, t) == ~RsiLess(rsi, t) /\ RsiLess(rsi, t + 1)

(* C32: calculate_rsi yields the neutral value 50 where the value is        *)
(* undefined: at the first bar, which has no prior close, and at every bar  *)
(* of a flat close series.                                                  *)
C32_NeutralWhereUndefined ==
    Computed =>
        /\ Len(hist) >= 1 => RsiNear(RsiSeries[1], 50)
        /\ AllEqual(hist) => \A i \in 1..Len(hist) : RsiNear(RsiSeries[i], 50)

(* what the code yields there instead: 0, since the first delta counts as   *)
(* no gain and no loss and 0 / (0 + 1e-10) is 0, not NaN                    *)
C32_ZeroWhereUndefined ==
    Computed =>
        /\ Len(hist) >= 1 => RsiNear(RsiSeries[1], 0)
        /\ AllEqual(hist) => \A i \in 1..Len(hist) : RsiNear(RsiSeries[i], 0)

C32_Witness ==
    /\ Computed /\ Len(hist) > 2 /\ AllEqual(hist)
    /\ Val(exit_in).period = rsi_period
    /\ RsiSeries[Len(hist)].g = 0 /\ RsiSeries[Len(hist)].l = 0

-----------------------------------------------------------------------------
(* The exchange calls around the store's writes, in the live loop *)

(* the records the step puts into the store as OPEN *)
Registered ==
    {i \in DOMAIN positions' :
        /\ positions'[i].status = "OPEN"
        /\ i \in DOMAIN positions => positions[i] # positions'[i]}

StartsWith(cs, first) == Len(first) <= Len(cs) /\ SubSeq(cs, 1, Len(first)) = first

OpenBefore(sym) == has_open_position(positions, sym)

(* the step is a turn of the trade loop, on the head of analysis_results *)
TradeStep ==
    /\ pc = "trade" /\ pc' = "trade"
    /\ analysis_results # <<>> /\ analysis_results' = Tail(analysis_results)

(* C33: in the live driver every registered position is preceded, within    *)
(* the same execute_trade call and in this order, by a successful           *)
(* set_leverage and a successful market BUY for the symbol; no position is  *)
(* registered without an order, and the has_open_position check comes       *)
(* before any exchange call.                                                 *)
C33_OrderBeforePosition ==
    [][/\ Registered # {} =>
            /\ TradeStep
            /\ Head(analysis_results).signal = "LONG"
            /\ \A i \in Registered : positions'[i].symbol = Head(analysis_results).symbol
            /\ StartsWith(calls', <<"set_leverage", "place_market_order">>)
            /\ Len(calls') > 2 /\ calls'[3] # "notify_error"
       /\ (TradeStep /\ ~StartsWith(calls', <<"set_leverage", "place_market_order">>))
            => Registered = {}
       /\ (TradeStep /\ Made(calls', "place_market_order"))
            => StartsWith(calls', <<"set_leverage", "place_market_order">>)
       /\ (TradeStep /\ OpenBefore(Head(analysis_results).symbol))
            => /\ calls' = <<>>
               /\ positions' = positions]_vars

(* a position registered in this second, after the leverage and the order *)
C33_Witness ==
    /\ pc = "trade"
    /\ calls = <<"set_leverage", "place_market_order", "notify_position_opened">>
    /\ \E i \in get_open_positions(positions) : positions[i].entry_time = clock

(* a LONG decision waits for a symbol that holds an open position *)
C33_WitnessHeld ==
    /\ pc = "trade" /\ analysis_results # <<>>
    /\ Head(analysis_results).signal = "LONG"
    /\ OpenBefore(Head(analysis_results).symbol)

(* the order raised: the exchange was asked and nothing was registered *)
C33_WitnessRefused ==
    /\ pc = "trade"
    /\ calls = <<"set_leverage", "place_market_order", "notify_error">>
    /\ \A i \in DOMAIN positions : positions[i].entry_time < clock

(* the records the step takes from OPEN to CLOSED *)
ClosedNow ==
    {i \in DOMAIN positions :
        /\ positions[i].status = "OPEN"
        /\ i \in DOMAIN positions' /\ positions'[i].status = "CLOSED"}

(* the step is a turn of monitor_positions' loop *)
MonitorStep ==
    /\ pc = "monitor" /\ pc' = "monitor"
    /\ open_positions # {} /\ open_positions' = open_positions \ {FirstOf(open_positions)}

(* the turn's price fetch or its close order raised *)
FetchOrOrderFailed(cs) ==
    \/ cs = <<"get_current_price", "logger.error">>
    \/ cs = <<"get_current_price", "close_position", "logger.error">>

(* C34: in monitor_positions a position becomes CLOSED only after the       *)
(* exchange close order for its symbol succeeded in the same call; if the   *)
(* price fetch or the close order fails the position stays OPEN with all    *)
(* fields unchanged, and the next cycle's monitor_positions checks it again. *)
C34_CloseAfterExchange ==
    /\ [][ClosedNow # {} =>
            /\ MonitorStep
            /\ ClosedNow = {FirstOf(open_positions)}
            /\ StartsWith(calls', <<"get_current_price", "close_position",
                                    "notify_position_closed">>)]_vars
    /\ [][(MonitorStep /\ FetchOrOrderFailed(calls')) =>
            /\ positions' = positions
            /\ positions_file' = positions_file
            /\ positions[FirstOf(open_positions)].status = "OPEN"]_vars
    /\ [](pc = "monitor" /\ open_positions # {} =>
            \A price \in Closes, raises \in {"get_current_price", "close_position"} :
                LET r == monitor_position(config, positions, clock,
                                          FirstOf(open_positions), price, raises)
                IN  r.store = positions /\ r.events = <<>>)
    /\ [][(pc = "trade" /\ pc' = "monitor") =>
            open_positions' = {i \in DOMAIN positions' : positions'[i].status = "OPEN"}]_vars

(* the close order raised and the position is still open *)
C34_Witness ==
    /\ pc = "monitor"
    /\ calls = <<"get_current_price", "close_position", "logger.error">>
    /\ get_open_positions(positions) # {}

(* the close order went through and the record is closed *)
C34_WitnessClosed ==
    /\ pc = "monitor"
    /\ calls = <<"get_current_price", "close_position", "notify_position_closed">>
    /\ \E i \in DOMAIN positions : positions[i].status = "CLOSED"

(* a later cycle's snapshot holds a position of an earlier cycle *)
C34_WitnessAgain ==
    /\ pc = "monitor" /\ clock > 1
    /\ \E i \in open_positions : positions[i].entry_time = 1

(* the decision is not LONG, or its symbol holds an open position *)
NoOp(analysis) == analysis.signal # "LONG" \/ OpenBefore(analysis.symbol)

(* C38: execute_trade is a no-op when the analysis signal is not LONG (NONE *)
(* or ERROR) or when the symbol already has an OPEN position: it returns    *)
(* False, makes no exchange call, sends no notification and leaves the      *)
(* position store unchanged.                                                 *)
C38_NoOpTrade ==
    /\ [](pc = "trade" /\ analysis_results # <<>> /\ NoOp(Head(analysis_results)) =>
            \A raises \in TradeFailures :
                LET r == execute_trade(config, positions, clock,
                                       Head(analysis_results), raises)
                IN  ~r.done /\ r.calls = <<>> /\ r.store = positions /\ r.events = <<>>)
    /\ [][(TradeStep /\ NoOp(Head(analysis_results))) =>
            /\ calls' = <<>>
            /\ positions' = positions
            /\ positions_file' = positions_file
            /\ live_events' = live_events]_vars

(* a decision of the cycle was passed over while a position is open *)
C38_Witness ==
    /\ pc = "trade" /\ calls = <<>>
    /\ Len(analysis_results) < Len(EnabledInOrder(config))
    /\ get_open_positions(positions) # {}

(* a LONG decision of a later cycle for a symbol that holds a position *)
C38_WitnessHeld ==
    /\ pc = "trade" /\ clock > 1 /\ analysis_results # <<>>
    /\ Head(analysis_results).signal = "LONG"
    /\ \E i \in get_open_positions(positions) :
          positions[i].symbol = Head(analysis_results).symbol

(* an ERROR result waits in the trade loop *)
C38_WitnessError ==
    /\ pc = "trade" /\ analysis_results # <<>>
    /\ Head(analysis_results).signal = "ERROR"

-----------------------------------------------------------------------------
(* The order of the backtester's trades, under SpecBacktest *)

(* the trades of a run follow one another, and the position still open at  *)
(* the last candle follows the last of them                                 *)
InOrder(r) ==
    /\ \A k \in 1..Len(r.trades) :
          /\ r.trades[k].entry_time < r.trades[k].exit_time
          /\ r.trades[k].duration = r.trades[k].exit_time - r.trades[k].entry_time
          /\ r.trades[k].duration > 0
    /\ \A k \in 1..(Len(r.trades) - 1) :
          r.trades[k].exit_time < r.trades[k + 1].entry_time
    /\ (r.position # None /\ r.trades # <<>>) =>
          r.trades[Len(r.trades)].exit_time < Val(r.position).entry_time

(* the run on the series and one more candle *)
OneMore(c) == run_backtest(config, Asked, Append(hist, c))

(* C35: the trades run_backtest returns for a symbol are ordered and do not *)
(* overlap: each trade's entry bar is strictly before its exit bar (no exit *)
(* is checked on the entry bar, so its duration is positive), and each      *)
(* trade's exit bar is strictly before the next trade's entry bar (no       *)
(* position is opened on the bar on which the one before it closed).        *)
C35_TradesInOrder ==
    pc = "backtested" =>
        /\ InOrder(Val(bt_out))
        /\ \A c \in Closes : InOrder(OneMore(c))

(* a trade closed on a bar whose own decision is LONG, and the next         *)
(* position entered on a later bar                                           *)
C35_Witness ==
    /\ pc = "backtested"
    /\ Val(bt_out).trades # <<>> /\ Val(bt_out).position # None
    /\ bar_analysis(config, Asked, hist, Val(bt_out).trades[1].exit_time).signal = "LONG"
    /\ Val(bt_out).trades[1].exit_time < Val(Val(bt_out).position).entry_time

(* one more candle closes the second trade of the series *)
C35_WitnessTwoTrades ==
    /\ pc = "backtested"
    /\ \E c \in Closes :
          /\ Len(OneMore(c).trades) = 2
          /\ OneMore(c).trades[1].exit_time < OneMore(c).trades[2].entry_time

-----------------------------------------------------------------------------
(* The sign and size of a closed trade's result, under SpecEquiv *)

(* r >= k and r <= k for a rational r and an integer k *)
RatAtLeast(r, k) == IF r.d > 0 THEN r.n >= k * r.d ELSE r.n <= k * r.d
RatAtMost(r, k) == IF r.d > 0 THEN r.n <= k * r.d ELSE r.n >= k * r.d

(* a closing with the given reason, result and leveraged percentage, under *)
(* the pair's config c                                                      *)
ResultFits(reason, pnl, pnl_percent, c) ==
    /\ reason = "Take Profit" =>
          /\ RatSign(pnl) > 0
          /\ RatAtLeast(pnl_percent, c.take_profit_percent * c.leverage)
    /\ reason = "Stop Loss" =>
          /\ RatSign(pnl) < 0
          /\ RatAtMost(pnl_percent, 0 - c.stop_loss_percent * c.leverage)

(* C36: under a valid config and a positive entry price, every LONG         *)
(* position closed with reason 'Take Profit' has pnl > 0 and pnl_percent >= *)
(* take_profit_percent * leverage, and every one closed with reason 'Stop   *)
(* Loss' has pnl < 0 and pnl_percent <= -(stop_loss_percent * leverage), in *)
(* the live store and in the backtester's trades.                            *)
C36_ResultFollowsReason ==
    /\ \A i \in DOMAIN positions :
          LET p == positions[i]
          IN  (/\ p.status = "CLOSED" /\ p.side = "LONG" /\ p.entry_price > 0
               /\ validate_symbol_config(config, p.symbol))
                  => ResultFits(Val(p.exit_reason), p.pnl, p.pnl_percent, config[p.symbol])
    /\ \A k \in 1..Len(BacktestTrades) :
          LET t == BacktestTrades[k]
          IN  (/\ t.side = "LONG" /\ t.entry_price > 0
               /\ validate_symbol_config(config, t.symbol))
                  => ResultFits(t.exit_reason, t.pnl_usdt, t.pnl_percent, config[t.symbol])

(* both drivers took the profit of a trade, the live one at the level itself *)
C36_Witness ==
    /\ pc = "replayed"
    /\ \E i \in DOMAIN positions : \E k \in 1..Len(BacktestTrades) :
          /\ SameTrade(positions[i], BacktestTrades[k])
          /\ positions[i].exit_reason = Some("Take Profit")
          /\ BacktestTrades[k].exit_reason = "Take Profit"
          /\ RatEq(Rat(Val(positions[i].exit_price), 1), positions[i].take_profit)
          /\ RatSign(positions[i].pnl) > 0

(* both drivers stopped the loss of a trade *)
C36_WitnessLoss ==
    /\ pc = "replayed"
    /\ \E i \in DOMAIN positions : \E k \in 1..Len(BacktestTrades) :
          /\ SameTrade(positions[i], BacktestTrades[k])
          /\ positions[i].exit_reason = Some("Stop Loss")
          /\ BacktestTrades[k].exit_reason = "Stop Loss"
          /\ RatSign(BacktestTrades[k].pnl_usdt) < 0

(* a profit taken above the level: the percentage exceeds the bound *)
C36_WitnessBeyond ==
    \E i \in DOMAIN positions :
        /\ positions[i].exit_reason = Some("Take Profit")
        /\ ~RatEq(Rat(Val(positions[i].exit_price), 1), positions[i].take_profit)

-----------------------------------------------------------------------------
(* The evaluator on windows that end alike, under SpecIndicators *)

TrailingCloses == bb_period + 1

(* the last TrailingCloses closes of the window *)
Trailing(df) == SubSeq(df, Len(df) - TrailingCloses + 1, Len(df))

(* the windows compared with hist: its last 21 closes alone, after one      *)
(* other close, and at the end of a window of klines_limit candles           *)
EndingAlike ==
    {Trailing(hist)}
        \cup {<<c>> \o Trailing(hist) : c \in Closes}
        \cup {Flat(klines_limit - TrailingCloses, c) \o Trailing(hist) : c \in Closes}

(* C37: the evaluator's decision depends only on the trailing closes of its *)
(* window: two windows of 21 closes or more that end with the same 21       *)
(* closes give the same signal and the same snapshot (rsi, bands, price),   *)
(* so the backtester's growing prefix and the live loop's window of 100     *)
(* candles decide alike at the same bar.                                     *)
C37_TrailingClosesDecide ==
    (Evaluated /\ Len(hist) >= TrailingCloses) =>
        \A df \in EndingAlike :
            LET other == analyze_symbol(config, Asked, df)
            IN  /\ other.signal = Answer.signal
                /\ other.rsi = Answer.rsi
                /\ other.bb = Answer.bb
                /\ other.current_price = Answer.current_price
                /\ other = Answer

(* a window of 22 closes whose first close is not its second, which gives  *)
(* a LONG as its last 21 closes do                                          *)
C37_Witness ==
    /\ Evaluated /\ Len(hist) > TrailingCloses
    /\ hist[1] # hist[2]
    /\ Answer.signal = "LONG"
    /\ analyze_symbol(config, Asked, Trailing(hist)).signal = "LONG"

(* a window of 22 closes that rose before its last 21 and gives no signal *)
C37_WitnessNone ==
    /\ Evaluated /\ Len(hist) > TrailingCloses
    /\ hist[1] < hist[2]
    /\ Answer.signal = "NONE"

-----------------------------------------------------------------------------
(* The exits of the live loop, under SpecLiveFair *)

(* the reason the price gives for closing p under the config, or None *)
ExitDue(p, price) ==
    IF AtOrAboveTakeProfit(price, p.entry_price, config[p.symbol].take_profit_percent)
    THEN Some("Take Profit")
    ELSE IF AtOrBelowStopLoss(price, p.entry_price, config[p.symbol].stop_loss_percent)
    THEN Some("Stop Loss")
    ELSE None

IsOpen(i) == i \in DOMAIN positions /\ positions[i].status = "OPEN"
IsClosed(i) == i \in DOMAIN positions /\ positions[i].status = "CLOSED"

(* position i is open and the cycle has its turn still to come *)
AwaitsTurn(i) ==
    /\ IsOpen(i)
    /\ pc = "trade" \/ (pc = "monitor" /\ i \in open_positions)

(* the turn of i has passed and left it open *)
LeftOpen(i) == IsOpen(i) /\ pc = "monitor" /\ i \notin open_positions

(* the cycle is over: it ran to its sleep, was abandoned, or the loop ended *)
CycleOver == pc \in {"analyze", "stopped"}

(* C39: an OPEN position whose observed price satisfies its take-profit or  *)
(* stop-loss condition is closed with that reason in the first cycle in     *)
(* which the price fetch and the exchange's close order both succeed: each  *)
(* cycle's monitor_positions takes every OPEN position, a turn on such a    *)
(* price without those failures closes the position at that price, a turn   *)
(* leaves it open only on a failure or with nothing due, and the turn of    *)
(* every open position comes unless the cycle is abandoned.                  *)
C39_ExitHappens ==
    /\ [](pc = "monitor" /\ open_positions # {} =>
            \A price \in Closes, raises \in {"none", "notify_position_closed"} :
                LET id == FirstOf(open_positions)
                    r == monitor_position(config, positions, clock, id, price, raises)
                IN  /\ IsOpen(id)
                    /\ ExitDue(positions[id], price) # None =>
                          /\ r.store[id].status = "CLOSED"
                          /\ r.store[id].exit_reason = ExitDue(positions[id], price)
                          /\ r.store[id].exit_price = Some(price)
                          /\ r.store[id].exit_time = Some(clock)
                    /\ ExitDue(positions[id], price) = None => r.store = positions)
    /\ [][(pc = "trade" /\ pc' = "monitor") => open_positions' = {i \in AllIds : IsOpen(i)}]_vars
    /\ [][(MonitorStep /\ positions'[FirstOf(open_positions)].status = "OPEN") =>
            \/ calls' = <<"get_current_price">>
            \/ FetchOrOrderFailed(calls')]_vars
    /\ [][\A i \in ClosedNow :
            /\ positions'[i].exit_reason = ExitDue(positions[i], Val(positions'[i].exit_price))
            /\ positions'[i].exit_time = Some(clock)]_vars
    /\ \A i \in AllIds : AwaitsTurn(i) ~> (IsClosed(i) \/ LeftOpen(i) \/ CycleOver)

(* a position opened in the first cycle and left open there is closed by    *)
(* the second cycle's turn, on a price at its stop loss                      *)
C39_Witness ==
    /\ pc = "monitor"
    /\ \E i \in DOMAIN positions :
          /\ positions[i].entry_time = 1
          /\ positions[i].exit_time = Some(2)
          /\ positions[i].exit_reason = Some("Stop Loss")
          /\ ExitDue(positions[i], Val(positions[i].exit_price)) = Some("Stop Loss")

(* the turn of a position failed at the close order and left it open *)
C39_WitnessLeftOpen ==
    /\ calls = <<"get_current_price", "close_position", "logger.error">>
    /\ \E i \in AllIds : LeftOpen(i) /\ positions[i].entry_time < clock

====
